---- MODULE Spec2Model ----
(***************************************************************************)
(* Spritesheet Generator for Godot: the execution-plan builder of core.py, *)
(* the plan synchronizer of ops.py and the modal batch renderer            *)
(* SGG_OT_execute_batch of batch_rendering.py with its sheet assembler,    *)
(* with the part of the Blender host they read and write (current frame,   *)
(* render.filepath, the source collection, each armature's animation data, *)
(* window-manager timers, files on disk).                                  *)
(***************************************************************************)
EXTENDS Integers, Sequences, FiniteSets, TLC

(***************************************************************************)
(* Bounds of the model.                                                    *)
(***************************************************************************)
\* largest frame number of a planned frame range
MaxFrame == 2
\* largest value of the directions / frame_step settings
MaxDirections == 2
MaxStep == 2

(***************************************************************************)
(* Host objects.  Armature objects and Action datablocks are opaque        *)
(* handles; None is Python's None.                                         *)
(***************************************************************************)
None == "None"
Armatures == {"Arm1", "Arm2"}
Actions == {"Walk", "Run"}

\* obj.type of the objects a plan item can point at
ObjType(obj) == IF obj \in Armatures THEN "ARMATURE" ELSE "MESH"

\* obj.name / action.name, as sequences of characters
ObjName(obj) ==
    CASE obj = "Arm1" -> <<"a", " ", "b">>
      [] obj = "Arm2" -> <<"a", "_", "b">>
      [] OTHER -> <<"x">>

ActionName(act) ==
    CASE act = "Walk" -> <<"w">>
      [] act = "Run" -> <<"r", " ", "n">>
      [] OTHER -> <<"y">>

(***************************************************************************)
(* core.py: FrameRangePlan, ActionExecPlan, BatchExecPlan.                 *)
(***************************************************************************)
Max(a, b) == IF a >= b THEN a ELSE b

\* range(lo, hi, step) for step >= 1, as the sequence it iterates
RECURSIVE PyRange(_, _, _)
PyRange(lo, hi, step) ==
    IF lo >= hi THEN <<>> ELSE <<lo>> \o PyRange(lo + step, hi, step)

FrameRangePlan(start, end, step) == [start |-> start, end |-> end, step |-> step]

\* frames with the end of the range left out
frames_end_excluded(fr) ==
    IF fr.end < fr.start THEN <<>> ELSE PyRange(fr.start, fr.end, Max(1, fr.step))

\* FrameRangePlan.frames()
frames(fr) ==
    LET step == Max(1, fr.step)
    IN IF fr.end < fr.start THEN <<>> ELSE PyRange(fr.start, fr.end + 1, step)

ActionExecPlan(arm_obj, action, frame_range) ==
    [armature_obj |-> arm_obj, action |-> action, frame_range |-> frame_range]

\* from_scene_actions with the test of the range left out
RECURSIVE from_scene_actions_keeps_invalid(_, _, _, _)
from_scene_actions_keeps_invalid(arm_obj, act_items, k, step) ==
    IF k > Len(act_items) THEN <<>>
    ELSE IF ~act_items[k].enabled \/ act_items[k].action = None
    THEN from_scene_actions_keeps_invalid(arm_obj, act_items, k + 1, step)
    ELSE <<ActionExecPlan(arm_obj, act_items[k].action,
                          FrameRangePlan(act_items[k].frame_start,
                                         act_items[k].frame_end, step))>>
         \o from_scene_actions_keeps_invalid(arm_obj, act_items, k + 1, step)

\* the inner loop of from_scene over arm_item.actions, from index k on
RECURSIVE from_scene_actions(_, _, _, _)
from_scene_actions(arm_obj, act_items, k, step) ==
    IF k > Len(act_items) THEN <<>>
    ELSE LET act_item == act_items[k]
             rest == from_scene_actions(arm_obj, act_items, k + 1, step)
         IN IF ~act_item.enabled \/ act_item.action = None THEN rest
            ELSE IF act_item.frame_end < act_item.frame_start THEN rest
            ELSE <<ActionExecPlan(arm_obj, act_item.action,
                                  FrameRangePlan(act_item.frame_start,
                                                 act_item.frame_end, step))>>
                 \o rest

\* the outer loop of from_scene over scene.sgg_plan_armatures, from index k on
RECURSIVE from_scene_armatures(_, _, _)
from_scene_armatures(arm_items, k, step) ==
    IF k > Len(arm_items) THEN <<>>
    ELSE LET arm_item == arm_items[k]
             rest == from_scene_armatures(arm_items, k + 1, step)
         IN IF ~arm_item.enabled THEN rest
            ELSE IF arm_item.armature = None
                    \/ ObjType(arm_item.armature) # "ARMATURE" THEN rest
            ELSE from_scene_actions(arm_item.armature, arm_item.actions, 1, step)
                 \o rest

\* from_scene with directions and frame_step taken as they are passed
from_scene_unclamped(arm_items, directions, frame_step) ==
    [actions |-> from_scene_armatures(arm_items, 1, frame_step),
     directions |-> directions]

\* BatchExecPlan.from_scene(scene, directions, frame_step)
from_scene(arm_items, directions, frame_step) ==
    [actions |-> from_scene_armatures(arm_items, 1, Max(1, frame_step)),
     directions |-> Max(1, directions)]

(***************************************************************************)
(* Python dicts keep insertion order: a dict is a sequence of [k, v].      *)
(***************************************************************************)
DictKeys(d) == {d[n].k : n \in DOMAIN d}
DictIndex(d, key) == CHOOSE n \in DOMAIN d : d[n].k = key
DictGet(d, key) == d[DictIndex(d, key)].v
DictSet(d, key, val) ==
    IF key \in DictKeys(d) THEN [d EXCEPT ![DictIndex(d, key)].v = val]
    ELSE Append(d, [k |-> key, v |-> val])

(***************************************************************************)
(* File names and paths.  A path is <<directory, file name>>, the file     *)
(* name a sequence of characters.                                          *)
(***************************************************************************)
DigitChars == <<"0", "1", "2", "3", "4", "5", "6", "7", "8", "9">>

\* str(n) for n >= 0
RECURSIVE Digits(_)
Digits(n) == IF n < 10 THEN <<DigitChars[n + 1]>>
             ELSE Digits(n \div 10) \o <<DigitChars[(n % 10) + 1]>>

RECURSIVE ZeroFill(_, _)
ZeroFill(s, width) == IF Len(s) >= width THEN s ELSE ZeroFill(<<"0">> \o s, width)

\* f"{n:0{width}d}"
PadInt(n, width) ==
    IF n < 0 THEN <<"-">> \o ZeroFill(Digits(0 - n), width - 1)
    ELSE ZeroFill(Digits(n), width)

\* SafeName with the name taken as it is
SafeName_keeps_spaces(name) == name

\* name.replace(" ", "_")
SafeName(name) == [n \in DOMAIN name |-> IF name[n] = " " THEN "_" ELSE name[n]]

\* f"{safe_arm_name}_{safe_action_name}_dir{direction_index:02d}_frame{frame:04d}.png"
FrameFileName(arm_obj, action, direction_index, frame) ==
    SafeName(ObjName(arm_obj)) \o <<"_">> \o SafeName(ActionName(action))
    \o <<"_", "d", "i", "r">> \o PadInt(direction_index, 2)
    \o <<"_", "f", "r", "a", "m", "e">> \o PadInt(frame, 4)
    \o <<".", "p", "n", "g">>

\* f"{safe_arm_name}_{safe_action_name}_sheet.png"
SheetFileName(arm_obj, action) ==
    SafeName(ObjName(arm_obj)) \o <<"_">> \o SafeName(ActionName(action))
    \o <<"_", "s", "h", "e", "e", "t", ".", "p", "n", "g">>

\* os.path.join(directory, filename)
PathJoin(directory, filename) == <<directory, filename>>

\* bpy.path.abspath: a "//" path is relative to the .blend file's directory
AbsPath(path) == IF path = "//spritesheets/" THEN "/project/spritesheets/" ELSE path

(***************************************************************************)
(* State.                                                                  *)
(***************************************************************************)
VARIABLES
    plan_armatures, \* scene.sgg_plan_armatures: the persistent planning state
    settings,       \* scene.sgg_settings (SGG_GlobalSettings)
    scene,          \* scene.frame_current and scene.render.filepath
    anim,           \* per armature: animation_data (present or not) and its action
    wm_timers,      \* window-manager timers, by the operator that added them
    disk,           \* directories created and files present
    op,             \* the attributes of each SGG_OT_execute_batch instance
    phase,          \* where each instance is: the result of its last call
    hist,           \* per instance, what it has done (history, not program state)
    bpy_data,       \* the planning dialog's view of the host: the source collection,
                    \* its objects, the armatures' animation data with NLA strips
    calc            \* the last call made outside a batch: its name, arguments, result

vars == <<plan_armatures, settings, scene, anim, wm_timers, disk, op, phase, hist,
          bpy_data, calc>>

\* what the batch renderer reads and writes
batch_vars == <<settings, scene, anim, wm_timers, disk, op, phase, hist>>

\* the operator instances of one behaviour, in the order they are started: a
\* batch, and a second one started while the first runs or after it has ended
Ops == {1, 2}

NoPlan == [actions |-> <<>>, directions |-> 0]
NoData == [collection |-> None, objects |-> <<>>, live |-> {}, ad |-> <<>>]
NoCall == [call |-> "none"]
NoActionPlan == ActionExecPlan(None, None, FrameRangePlan(0, 0, 0))
NoIter == [live |-> FALSE, rest |-> <<>>]

\* an instance before execute() has run
NewOperator ==
    [plan |-> NoPlan, action_index |-> 0, direction_index |-> 0,
     frame_iter |-> NoIter, current_action_plan |-> NoActionPlan,
     timer |-> FALSE, original_frame |-> 0, original_filepath |-> <<"", <<>>>>,
     original_actions |-> <<>>, output_dir |-> "", frame_paths |-> <<>>]

NewHistory ==
    [renders |-> <<>>, ticks |-> 0, escs |-> 0, sheets |-> <<>>, assembled |-> 0,
     plan |-> NoPlan,
     pre |-> [frame |-> 0, filepath |-> <<"", <<>>>>,
              action |-> [a \in Armatures |-> None]]]

\* the state one call of an operator method reads and writes
World(i) ==
    [id |-> i, self |-> op[i], settings |-> settings, scene |-> scene,
     anim |-> anim, wm_timers |-> wm_timers, disk |-> disk, hist |-> hist[i],
     plan_armatures |-> plan_armatures, ret |-> "NONE"]

\* ad.action if ad else None
ActiveAction(an, arm_obj) == IF an[arm_obj].has_ad THEN an[arm_obj].action ELSE None

(***************************************************************************)
(* batch_rendering.py: SGG_OT_execute_batch.  Each method is an operator   *)
(* from the world it is called in to the world it leaves; w.ret is the     *)
(* method's result ("EXCEPTION" when an exception leaves it).              *)
(***************************************************************************)
NoItem == [action_plan |-> NoActionPlan, direction_index |-> 0, frame |-> 0]

RECURSIVE next_frame_loop(_)

\* next_frame_take with the exhausted iterator kept for the next direction
next_frame_take_stale_iter(self) ==
    IF self.frame_iter.rest # <<>>
    THEN [self |-> [self EXCEPT !.frame_iter.rest = Tail(@)],
          found |-> TRUE,
          item |-> [action_plan |-> self.current_action_plan,
                    direction_index |-> self.direction_index,
                    frame |-> Head(self.frame_iter.rest)]]
    ELSE next_frame_loop([self EXCEPT !.direction_index = @ + 1])

\* _next_frame, lines 162-169: next(self._frame_iter), or on to the next direction
next_frame_take(self) ==
    IF self.frame_iter.rest # <<>>
    THEN [self |-> [self EXCEPT !.frame_iter.rest = Tail(@)],
          found |-> TRUE,
          item |-> [action_plan |-> self.current_action_plan,
                    direction_index |-> self.direction_index,
                    frame |-> Head(self.frame_iter.rest)]]
    ELSE next_frame_loop([self EXCEPT !.frame_iter = NoIter,
                                      !.direction_index = @ + 1])

\* _next_frame, lines 152-160: on to the next action, or make the frame iterator
next_frame_direction(self) ==
    IF self.direction_index >= self.plan.directions
    THEN next_frame_loop([self EXCEPT !.action_index = @ + 1,
                                      !.current_action_plan = NoActionPlan])
    ELSE next_frame_take(
           IF ~self.frame_iter.live
           THEN [self EXCEPT !.frame_iter =
                   [live |-> TRUE,
                    rest |-> frames(self.current_action_plan.frame_range)]]
           ELSE self)

\* next_frame_loop with the reset of the direction index forgotten
next_frame_loop_keeps_direction(self) ==
    IF self.current_action_plan = NoActionPlan
       /\ self.action_index >= Len(self.plan.actions)
    THEN [self |-> self, found |-> FALSE, item |-> NoItem]
    ELSE next_frame_direction(
           IF self.current_action_plan = NoActionPlan
           THEN [self EXCEPT
                   !.current_action_plan = self.plan.actions[self.action_index + 1],
                   !.frame_iter = NoIter]
           ELSE self)

\* one turn of the while-loop of _next_frame
next_frame_loop(self) ==
    IF self.current_action_plan = NoActionPlan
       /\ self.action_index >= Len(self.plan.actions)
    THEN [self |-> self, found |-> FALSE, item |-> NoItem]
    ELSE next_frame_direction(
           IF self.current_action_plan = NoActionPlan
           THEN [self EXCEPT
                   !.current_action_plan = self.plan.actions[self.action_index + 1],
                   !.direction_index = 0,
                   !.frame_iter = NoIter]
           ELSE self)

\* _next_frame
next_frame(self) ==
    IF self.plan = NoPlan THEN [self |-> self, found |-> FALSE, item |-> NoItem]
    ELSE next_frame_loop(self)

\* _render_frame, lines 199-203: the output path of one frame
frame_filepath(self, action_plan, direction_index, frame) ==
    PathJoin(self.output_dir,
             FrameFileName(action_plan.armature_obj, action_plan.action,
                           direction_index, frame))

\* _render_frame, lines 184-211: up to the call of bpy.ops.render.render
render_frame_call(w, action_plan, direction_index, frame, filepath) ==
    [w EXCEPT
       !.anim[action_plan.armature_obj] =
           [has_ad |-> TRUE, action |-> action_plan.action],
       !.scene = [frame_current |-> frame, filepath |-> filepath],
       !.hist.renders = Append(@, [action_plan |-> action_plan,
                                   direction_index |-> direction_index,
                                   frame |-> frame])]

\* _render_frame, lines 212-222: after the render call; it raised (the exception
\* leaves _render_frame) or it returned and wrote the file
render_frame_return(w, key, filepath, old_filepath, render_ok, elapsed) ==
    IF ~render_ok THEN [w EXCEPT !.ret = "EXCEPTION"]
    ELSE [w EXCEPT
            !.disk.files = @ \cup {filepath},
            !.settings.last_frame_render_seconds = elapsed,
            !.scene.filepath = old_filepath,
            !.self.frame_paths =
                DictSet(@, key,
                        Append(IF key \in DictKeys(@) THEN DictGet(@, key) ELSE <<>>,
                               filepath))]

\* render_frame with every path recorded under the key of action index 0
render_frame_keyed_by_direction(w, action_plan, direction_index, frame, render_ok, elapsed) ==
    render_frame_return(
        render_frame_call(w, action_plan, direction_index, frame,
            frame_filepath(w.self, action_plan, direction_index, frame)),
        <<0, direction_index>>,
        frame_filepath(w.self, action_plan, direction_index, frame),
        w.scene.filepath, render_ok, elapsed)

\* _render_frame; render_ok: bpy.ops.render.render returned (it raises otherwise),
\* elapsed: the measured duration of the call
render_frame(w, action_plan, direction_index, frame, render_ok, elapsed) ==
    render_frame_return(
        render_frame_call(w, action_plan, direction_index, frame,
            frame_filepath(w.self, action_plan, direction_index, frame)),
        <<w.self.action_index, direction_index>>,
        frame_filepath(w.self, action_plan, direction_index, frame),
        w.scene.filepath, render_ok, elapsed)

\* _advance_step, lines 131-136, with the result of _next_frame
advance_step_item(w, next_item, render_ok, elapsed) ==
    IF ~next_item.found THEN [w EXCEPT !.self = next_item.self, !.ret = "False"]
    ELSE render_frame([w EXCEPT !.self = next_item.self, !.ret = "True"],
                      next_item.item.action_plan, next_item.item.direction_index,
                      next_item.item.frame, render_ok, elapsed)

\* the second unit of advance_step_two_units
advance_step_second(first, render_ok, elapsed) ==
    IF first.ret # "True" THEN first
    ELSE [advance_step_item(first, next_frame(first.self), render_ok, elapsed)
            EXCEPT !.ret = IF @ = "False" THEN "True" ELSE @]

\* advance_step rendering two units in one call
advance_step_two_units(w, render_ok, elapsed) ==
    advance_step_second(advance_step_item(w, next_frame(w.self), render_ok, elapsed),
                        render_ok, elapsed)

\* _advance_step: w.ret is "True", "False" or "EXCEPTION"
advance_step(w, render_ok, elapsed) ==
    advance_step_item(w, next_frame(w.self), render_ok, elapsed)

RECURSIVE SortedSeq(_)
SortedSeq(S) ==
    IF S = {} THEN <<>>
    ELSE <<CHOOSE x \in S : \A y \in S : x <= y>>
         \o SortedSeq(S \ {CHOOSE x \in S : \A y \in S : x <= y})

\* actions_group.setdefault(action_index, {})[direction_index] = frame_paths
group_add(actions_group, action_index, direction_index, paths) ==
    DictSet(actions_group, action_index,
            DictSet(IF action_index \in DictKeys(actions_group)
                    THEN DictGet(actions_group, action_index) ELSE <<>>,
                    direction_index, paths))

\* _assemble_spritesheets, lines 241-245:
\* actions_group[action_index][direction_index] -> [paths]
RECURSIVE group_frame_paths(_, _, _)
group_frame_paths(frame_paths, n, actions_group) ==
    IF n > Len(frame_paths) THEN actions_group
    ELSE IF frame_paths[n].v = <<>>
    THEN group_frame_paths(frame_paths, n + 1, actions_group)
    ELSE group_frame_paths(frame_paths, n + 1,
            group_add(actions_group, frame_paths[n].k[1], frame_paths[n].k[2],
                      frame_paths[n].v))

\* every path of a dirs_dict
AllPaths(dirs_dict) ==
    UNION {{dirs_dict[n].v[c] : c \in DOMAIN dirs_dict[n].v} : n \in DOMAIN dirs_dict}

\* max_frames taken from the frame list of the first direction only
MaxFrames_first_direction(dirs_dict) == Len(dirs_dict[1].v)

\* max(len(paths) for paths in dirs_dict.values())
MaxFrames(dirs_dict) ==
    CHOOSE m \in {Len(dirs_dict[n].v) : n \in DOMAIN dirs_dict} :
        \A n \in DOMAIN dirs_dict : Len(dirs_dict[n].v) <= m

\* _assemble_spritesheets, lines 298-334: the cells <<dest_row, col_idx>> of the
\* sheet that get a frame's pixels (those whose image loads)
SheetCells(files, dirs_dict, direction_indices, cols, rows) ==
    {<<rows - 1 - (rc[1] - 1), rc[2] - 1>> :
        rc \in {x \in (1..rows) \X (1..cols) :
                  /\ x[2] <= Len(DictGet(dirs_dict, direction_indices[x[1]]))
                  /\ DictGet(dirs_dict, direction_indices[x[1]])[x[2]] \in files}}

\* _assemble_spritesheets, lines 280-356: compose and save one sheet, then delete
\* its frame files if asked to
assemble_sheet(w, action_index, dirs_dict, direction_indices, sheet_path) ==
    [w EXCEPT
       !.disk.files = IF w.settings.delete_frame_pngs
                      THEN (@ \cup {sheet_path}) \ AllPaths(dirs_dict)
                      ELSE @ \cup {sheet_path},
       !.hist.sheets = Append(@, [action_index |-> action_index,
                                  path |-> sheet_path,
                                  cols |-> MaxFrames(dirs_dict),
                                  rows |-> Len(direction_indices),
                                  cells |-> SheetCells(w.disk.files, dirs_dict,
                                                       direction_indices,
                                                       MaxFrames(dirs_dict),
                                                       Len(direction_indices))])]

\* _assemble_spritesheets, lines 255-278: the tests that skip an action group
assemble_checked(w, action_index, dirs_dict, direction_indices, action_plan) ==
    IF direction_indices = <<>> THEN w
    ELSE IF DictGet(dirs_dict, direction_indices[1]) = <<>> THEN w
    \* bpy.data.images.load raises RuntimeError for a file that is not there
    ELSE IF DictGet(dirs_dict, direction_indices[1])[1] \notin w.disk.files THEN w
    ELSE IF MaxFrames(dirs_dict) = 0 THEN w
    ELSE assemble_sheet(w, action_index, dirs_dict, direction_indices,
                        PathJoin(w.self.output_dir,
                                 SheetFileName(action_plan.armature_obj,
                                               action_plan.action)))

\* one iteration of the loop of _assemble_spritesheets over actions_group
assemble_one(w, action_index, dirs_dict) ==
    IF action_index < 0 \/ action_index >= Len(w.self.plan.actions) THEN w
    ELSE assemble_checked(w, action_index, dirs_dict,
                          SortedSeq(DictKeys(dirs_dict)),
                          w.self.plan.actions[action_index + 1])

RECURSIVE assemble_groups(_, _, _)
assemble_groups(w, actions_group, n) ==
    IF n > Len(actions_group) THEN w
    ELSE assemble_groups(assemble_one(w, actions_group[n].k, actions_group[n].v),
                         actions_group, n + 1)

\* _assemble_spritesheets
assemble_spritesheets(w) ==
    IF w.self.plan = NoPlan THEN w
    ELSE assemble_groups([w EXCEPT !.hist.assembled = @ + 1],
                         group_frame_paths(w.self.frame_paths, 1, <<>>), 1)

\* restore_actions with the loop left out
restore_actions_skipped(an, original_actions, n) == an

\* _finish_batch, lines 376-380: put back each armature's original action
RECURSIVE restore_actions(_, _, _)
restore_actions(an, original_actions, n) ==
    IF n > Len(original_actions) THEN an
    ELSE restore_actions(
           IF an[original_actions[n].k].has_ad
           THEN [an EXCEPT ![original_actions[n].k].action = original_actions[n].v]
           ELSE an,
           original_actions, n + 1)

\* _finish_batch, lines 368-392 (an instance that reaches it has run execute to
\* its end, so every attribute the hasattr tests look for is there)
finish_batch_restore(w) ==
    [w EXCEPT
       !.scene = [frame_current |-> w.self.original_frame,
                  filepath |-> w.self.original_filepath],
       !.anim = restore_actions(@, w.self.original_actions, 1),
       !.wm_timers = IF w.self.timer THEN @ \ {w.id} ELSE @,
       !.self.timer = FALSE,
       !.self.plan = NoPlan,
       !.self.frame_iter = NoIter,
       !.self.current_action_plan = NoActionPlan,
       !.self.frame_paths = <<>>]

\* finish_batch with the assembler called after the clean-up
finish_batch_assembles_last(w, cancelled) ==
    IF ~cancelled THEN assemble_spritesheets(finish_batch_restore(w))
    ELSE finish_batch_restore(w)

\* finish_batch with the test of cancelled left out
finish_batch_always_assembles(w, cancelled) ==
    finish_batch_restore(assemble_spritesheets(w))

\* _finish_batch
finish_batch(w, cancelled) ==
    finish_batch_restore(IF ~cancelled THEN assemble_spritesheets(w) ELSE w)

\* execute, lines 68-74: save each armature's active action, once
RECURSIVE save_original_actions(_, _, _, _)
save_original_actions(an, actions, n, original_actions) ==
    IF n > Len(actions) THEN original_actions
    ELSE save_original_actions(an, actions, n + 1,
           IF actions[n].armature_obj \notin DictKeys(original_actions)
           THEN DictSet(original_actions, actions[n].armature_obj,
                        ActiveAction(an, actions[n].armature_obj))
           ELSE original_actions)

\* execute_plan with the test of an empty plan left out
execute_plan_starts_empty(w, plan, output_dir) ==
    [w EXCEPT
       !.disk.dirs = @ \cup {output_dir},
       !.self = [plan |-> plan,
                 action_index |-> 0,
                 direction_index |-> 0,
                 frame_iter |-> NoIter,
                 current_action_plan |-> NoActionPlan,
                 frame_paths |-> <<>>,
                 output_dir |-> output_dir,
                 original_frame |-> w.scene.frame_current,
                 original_filepath |-> w.scene.filepath,
                 original_actions |->
                     save_original_actions(w.anim, plan.actions, 1, <<>>),
                 timer |-> TRUE],
       !.wm_timers = @ \cup {w.id},
       !.ret = "RUNNING_MODAL"]

\* execute, lines 45-91, with the plan built
execute_plan(w, plan, output_dir) ==
    IF plan.actions = <<>> THEN [w EXCEPT !.ret = "CANCELLED"]
    ELSE [w EXCEPT
            !.disk.dirs = @ \cup {output_dir},
            !.self = [plan |-> plan,
                      action_index |-> 0,
                      direction_index |-> 0,
                      frame_iter |-> NoIter,
                      current_action_plan |-> NoActionPlan,
                      frame_paths |-> <<>>,
                      output_dir |-> output_dir,
                      original_frame |-> w.scene.frame_current,
                      original_filepath |-> w.scene.filepath,
                      original_actions |->
                          save_original_actions(w.anim, plan.actions, 1, <<>>),
                      timer |-> TRUE],
            !.wm_timers = @ \cup {w.id},
            !.ret = "RUNNING_MODAL"]

\* execute
execute(w) ==
    execute_plan(w,
                 from_scene(w.plan_armatures, w.settings.directions,
                            w.settings.frame_step),
                 AbsPath(w.settings.output_dir))

\* modal_step with the exhausted plan handled as a cancellation
modal_step_reports_cancelled(stepped) ==
    IF stepped.ret = "EXCEPTION" THEN stepped
    ELSE IF stepped.ret = "False"
    THEN [finish_batch(stepped, TRUE) EXCEPT !.ret = "CANCELLED"]
    ELSE [stepped EXCEPT !.ret = "RUNNING_MODAL"]

\* modal, lines 112-118, with the result of _advance_step
modal_step(stepped) ==
    IF stepped.ret = "EXCEPTION" THEN stepped
    ELSE IF stepped.ret = "False"
    THEN [finish_batch(stepped, FALSE) EXCEPT !.ret = "FINISHED"]
    ELSE [stepped EXCEPT !.ret = "RUNNING_MODAL"]

\* modal with the plan built anew from the planning state before every step
modal_rebuilds_plan(w, event_type, render_ok, elapsed) ==
    IF event_type = "ESC"
    THEN [finish_batch(w, TRUE) EXCEPT !.ret = "CANCELLED"]
    ELSE IF event_type # "TIMER" THEN [w EXCEPT !.ret = "PASS_THROUGH"]
    ELSE IF w.self.plan = NoPlan
    THEN [finish_batch(w, TRUE) EXCEPT !.ret = "CANCELLED"]
    ELSE modal_step(advance_step(
           [w EXCEPT !.self.plan = from_scene(w.plan_armatures, w.settings.directions,
                                              w.settings.frame_step)],
           render_ok, elapsed))

\* modal with every event but ESC handled as a TIMER event
modal_steps_on_any_event(w, event_type, render_ok, elapsed) ==
    IF event_type = "ESC"
    THEN [finish_batch(w, TRUE) EXCEPT !.ret = "CANCELLED"]
    ELSE IF w.self.plan = NoPlan
    THEN [finish_batch(w, TRUE) EXCEPT !.ret = "CANCELLED"]
    ELSE modal_step(advance_step(w, render_ok, elapsed))

\* modal
modal(w, event_type, render_ok, elapsed) ==
    IF event_type = "ESC"
    THEN [finish_batch(w, TRUE) EXCEPT !.ret = "CANCELLED"]
    ELSE IF event_type # "TIMER" THEN [w EXCEPT !.ret = "PASS_THROUGH"]
    ELSE IF w.self.plan = NoPlan
    THEN [finish_batch(w, TRUE) EXCEPT !.ret = "CANCELLED"]
    ELSE modal_step(advance_step(w, render_ok, elapsed))

(***************************************************************************)
(* The planning state: SGG_ArmaturePlanItem and SGG_ActionPlanItem.        *)
(***************************************************************************)
ActionPlanItem(action, enabled, frame_start, frame_end) ==
    [action |-> action, name |-> ActionName(action), enabled |-> enabled,
     frame_start |-> frame_start, frame_end |-> frame_end,
     reverse_playback |-> FALSE]

ArmaturePlanItem(armature, enabled, actions) ==
    [armature |-> armature, name |-> ObjName(armature), enabled |-> enabled,
     ui_expanded |-> TRUE, actions |-> actions]

\* the planning states a batch is started from: two armatures, the first with
\* two actions; ranges valid or not, items enabled or not
PlanningStates ==
    {<<ArmaturePlanItem("Arm1", TRUE,
          <<ActionPlanItem("Walk", TRUE, 1, walk_end),
            ActionPlanItem("Run", run_enabled, MaxFrame, MaxFrame)>>),
       ArmaturePlanItem("Arm2", second_enabled,
          <<ActionPlanItem("Walk", TRUE, 1, 1)>>)>> :
        walk_end \in {0, MaxFrame}, run_enabled \in BOOLEAN,
        second_enabled \in BOOLEAN}

\* the measured durations of a render call (seconds)
ElapsedValues == {1}

(***************************************************************************)
(* Initial state: Blender with the add-on registered, a planning state     *)
(* left by the planning dialog, and no batch started.                      *)
(***************************************************************************)
Init ==
    /\ plan_armatures \in PlanningStates
    /\ settings \in [directions : 1..MaxDirections,
                     frame_step : 1..MaxStep,
                     output_dir : {"//spritesheets/"},
                     delete_frame_pngs : BOOLEAN,
                     last_frame_render_seconds : {0},
                     batch_running : {FALSE},
                     batch_cancel_requested : {FALSE},
                     batch_total_frames : {0},
                     batch_processed_frames : {0}]
    /\ scene = [frame_current |-> 0, filepath |-> <<"/tmp/", <<>>>>]
    /\ anim = [a \in Armatures |->
                 IF a = "Arm1" THEN [has_ad |-> TRUE, action |-> "Run"]
                 ELSE [has_ad |-> FALSE, action |-> None]]
    /\ wm_timers = {}
    /\ disk = [dirs |-> {}, files |-> {}]
    /\ op = [i \in Ops |-> NewOperator]
    /\ phase = [i \in Ops |-> "Unborn"]
    /\ hist = [i \in Ops |-> NewHistory]
    /\ bpy_data = NoData
    /\ calc = NoCall

(***************************************************************************)
(* Actions.                                                                *)
(***************************************************************************)
\* the state after a method call that left world w
Leave(i, w) ==
    /\ plan_armatures' = w.plan_armatures
    /\ settings' = w.settings
    /\ scene' = w.scene
    /\ anim' = w.anim
    /\ wm_timers' = w.wm_timers
    /\ disk' = w.disk
    /\ op' = [op EXCEPT ![i] = w.self]
    /\ UNCHANGED <<bpy_data, calc>>

\* the state after execute left world w
ExecuteLeaves(i, w) ==
    /\ Leave(i, w)
    /\ phase' = [phase EXCEPT ![i] =
                   IF w.ret = "RUNNING_MODAL" THEN "Running" ELSE "Idle"]
    /\ hist' = [hist EXCEPT ![i] =
                  [w.hist EXCEPT
                     !.plan = w.self.plan,
                     !.pre = [frame |-> scene.frame_current,
                              filepath |-> scene.filepath,
                              action |-> [a \in Armatures |->
                                            ActiveAction(anim, a)]]]]

\* bpy.ops.sgg.execute_batch('EXEC_DEFAULT'): a new operator instance runs execute
Execute(i) ==
    /\ phase[i] = "Unborn"
    /\ \A j \in Ops : j < i => phase[j] # "Unborn"
    /\ ExecuteLeaves(i, execute(World(i)))

\* the operator's state after modal returned ret
PhaseAfter(ret) ==
    CASE ret = "CANCELLED" -> "Cancelled"
      [] ret = "FINISHED" -> "Completed"
      [] ret = "EXCEPTION" -> "Failed"
      [] OTHER -> "Running"

\* the state after modal left world w
ModalLeaves(i, event_type, w) ==
    /\ Leave(i, w)
    /\ phase' = [phase EXCEPT ![i] = PhaseAfter(w.ret)]
    /\ hist' = [hist EXCEPT ![i] =
                  [w.hist EXCEPT
                     !.ticks = IF event_type = "TIMER" THEN @ + 1 ELSE @,
                     !.escs = IF event_type = "ESC" THEN @ + 1 ELSE @]]

\* the window manager hands an event to a running instance's modal handler
Event(i, event_type, render_ok, elapsed) ==
    /\ phase[i] = "Running"
    /\ ModalLeaves(i, event_type, modal(World(i), event_type, render_ok, elapsed))

\* a TIMER event whose render call, if one is made, returns
TimerEvent(i) ==
    /\ phase[i] = "Running"
    /\ \E elapsed \in ElapsedValues : Event(i, "TIMER", TRUE, elapsed)

\* a TIMER event whose render call raises
TimerEventRenderFails(i) ==
    /\ phase[i] = "Running"
    /\ next_frame(op[i]).found
    /\ \E elapsed \in ElapsedValues : Event(i, "TIMER", FALSE, elapsed)

\* the user presses ESC
EscEvent(i) ==
    /\ phase[i] = "Running"
    /\ \E elapsed \in ElapsedValues : Event(i, "ESC", TRUE, elapsed)

\* any other event (mouse, keyboard)
OtherEvent(i) ==
    /\ phase[i] = "Running"
    /\ \E elapsed \in ElapsedValues : Event(i, "MOUSEMOVE", TRUE, elapsed)

\* the host sets the cancellation flag of the settings
RequestCancel ==
    /\ \E i \in Ops : phase[i] = "Running"
    /\ ~settings.batch_cancel_requested
    /\ settings' = [settings EXCEPT !.batch_cancel_requested = TRUE]
    /\ UNCHANGED <<plan_armatures, scene, anim, wm_timers, disk, op, phase, hist,
                   bpy_data, calc>>

Next ==
    \/ \E i \in Ops : Execute(i)
    \/ \E i \in Ops : TimerEvent(i)
    \/ \E i \in Ops : TimerEventRenderFails(i)
    \/ \E i \in Ops : EscEvent(i)
    \/ \E i \in Ops : OtherEvent(i)
    \/ RequestCancel

Spec == Init /\ [][Next]_vars

(***************************************************************************)
(* What the properties below speak of.                                     *)
(***************************************************************************)
\* the frames of a frame range as the specification gives them:
\* start, start + step, ... while <= end
ExpectedFrames(fr) ==
    IF fr.end < fr.start THEN <<>>
    ELSE [k \in 1..(((fr.end - fr.start) \div fr.step) + 1) |->
            fr.start + (k - 1) * fr.step]

FrameCount(entry) == Len(ExpectedFrames(entry.frame_range))

\* the units of a plan entry with the given frames, from direction d on:
\* directions outer, frames inner
RECURSIVE EntryUnits(_, _, _, _)
EntryUnits(entry, entry_frames, d, directions) ==
    IF d >= directions THEN <<>>
    ELSE [k \in 1..Len(entry_frames) |->
            [action_plan |-> entry, direction_index |-> d, frame |-> entry_frames[k]]]
         \o EntryUnits(entry, entry_frames, d + 1, directions)

\* the (entry, direction, frame) units of a plan in lexicographic order
RECURSIVE PlanUnits(_, _)
PlanUnits(plan, a) ==
    IF a > Len(plan.actions) THEN <<>>
    ELSE EntryUnits(plan.actions[a], ExpectedFrames(plan.actions[a].frame_range),
                    0, plan.directions)
         \o PlanUnits(plan, a + 1)

\* sum over entries of frame_count(entry) * direction_count
RECURSIVE TotalUnitsFrom(_, _)
TotalUnitsFrom(plan, a) ==
    IF a > Len(plan.actions) THEN 0
    ELSE FrameCount(plan.actions[a]) * plan.directions + TotalUnitsFrom(plan, a + 1)

TotalUnits(plan) == TotalUnitsFrom(plan, 1)

\* the render invocations of instance i, as units
RenderedUnits(h) == h.renders

\* the armatures a plan refers to
PlanSubjects(plan) == {plan.actions[a].armature_obj : a \in 1..Len(plan.actions)}

\* the host's global state equals what it was when instance i started
Restored(sc, an, h) ==
    /\ sc.frame_current = h.pre.frame
    /\ sc.filepath = h.pre.filepath
    /\ \A arm \in PlanSubjects(h.plan) : ActiveAction(an, arm) = h.pre.action[arm]

\* the invocations made are the first units of the order and, in a completed
\* run, all of them
InOrder(rendered, units, completed) ==
    /\ Len(rendered) <= Len(units)
    /\ rendered = SubSeq(units, 1, Len(rendered))
    /\ completed => Len(rendered) = Len(units)

(***************************************************************************)
(* C1: the render invocations of a run are made in lexicographic order of  *)
(* (plan entry, direction 0..direction_count-1, frame in range order): at  *)
(* any moment they are the first units of that order, and once the run is  *)
(* Completed they are all of them, each once.                              *)
(***************************************************************************)
C1_RenderOrder ==
    \A i \in Ops :
        InOrder(RenderedUnits(hist[i]), PlanUnits(hist[i].plan, 1),
                phase[i] = "Completed")

C1_Witness ==
    \E i \in Ops :
        /\ phase[i] = "Completed"
        /\ Len(hist[i].plan.actions) >= 2
        /\ hist[i].plan.directions >= 2
        /\ \E a \in 1..Len(hist[i].plan.actions) :
              FrameCount(hist[i].plan.actions[a]) >= 2

(***************************************************************************)
(* C2, as stated: when a run makes the Completed transition it has handled *)
(* as many timer ticks as the plan has units, the sum over the entries of  *)
(* frame_count(entry) * direction_count.                                   *)
(***************************************************************************)
C2_TicksEqualUnits ==
    \A i \in Ops :
        phase[i] = "Completed" => hist[i].ticks = TotalUnits(hist[i].plan)

(***************************************************************************)
(* C2, amended: when a run makes the Completed transition it has handled   *)
(* one timer tick more than the plan has units: one tick for each unit,    *)
(* and the tick that finds the plan exhausted and completes the run.       *)
(***************************************************************************)
C2_TicksEqualUnitsPlusOne ==
    \A i \in Ops :
        phase[i] = "Completed" => hist[i].ticks = TotalUnits(hist[i].plan) + 1

C2_Witness ==
    \E i \in Ops :
        /\ phase[i] = "Completed"
        /\ Len(hist[i].plan.actions) >= 2
        /\ TotalUnits(hist[i].plan) >= 4

(***************************************************************************)
(* C3, as stated: every timer tick a Running instance handles makes        *)
(* exactly one render invocation.                                          *)
(***************************************************************************)
C3_OneRenderPerTick ==
    [][\A i \in Ops :
          hist'[i].ticks = hist[i].ticks + 1
            => Len(hist'[i].renders) = Len(hist[i].renders) + 1]_vars

(***************************************************************************)
(* C3, amended: every timer tick a Running instance handles makes at most  *)
(* one render invocation: exactly one while a unit of the plan is left,    *)
(* and none on the tick that finds the plan exhausted, which is the tick   *)
(* that makes the Completed transition.                                    *)
(***************************************************************************)
C3_AtMostOneRenderPerTick ==
    [][\A i \in Ops :
          hist'[i].ticks = hist[i].ticks + 1
            => IF Len(hist[i].renders) < TotalUnits(hist[i].plan)
               THEN /\ Len(hist'[i].renders) = Len(hist[i].renders) + 1
                    /\ phase'[i] \in {"Running", "Failed"}
               ELSE /\ hist'[i].renders = hist[i].renders
                    /\ phase'[i] = "Completed"]_vars

C3_Witness ==
    \E i \in Ops :
        /\ phase[i] = "Completed"
        /\ hist[i].ticks >= 3
        /\ Len(hist[i].renders) = hist[i].ticks - 1

(***************************************************************************)
(* C4: at a terminal transition of a run (to Completed or to Cancelled,    *)
(* after any number of ticks) the scene's current frame, the render output *)
(* path and the active action of every armature of the plan are what they  *)
(* were when the run started.                                              *)
(***************************************************************************)
C4_RestoredAtEnd ==
    [][\A i \in Ops :
          (phase[i] = "Running" /\ phase'[i] \in {"Completed", "Cancelled"})
            => Restored(scene', anim', hist[i])]_vars

C4_Witness ==
    \E i \in Ops :
        /\ phase[i] \in {"Completed", "Cancelled"}
        /\ Len(hist[i].renders) >= 2
        /\ "Arm2" \in PlanSubjects(hist[i].plan)
        /\ anim["Arm2"].has_ad
        /\ Restored(scene, anim, hist[i])

(***************************************************************************)
(* C5, as stated: when the render invocation of a tick fails, the          *)
(* instance's snapshotted global values (current frame, output path, the   *)
(* active action of each armature of the plan) are restored and its timer  *)
(* is removed by the time the failure leaves the handler.                  *)
(***************************************************************************)
C5_RestoredOnRenderFailure ==
    [][\A i \in Ops :
          (phase[i] = "Running" /\ phase'[i] = "Failed")
            => /\ Restored(scene', anim', hist[i])
               /\ i \notin wm_timers']_vars

(***************************************************************************)
(* C6: the handling of a cancellation (an ESC event) leaves the instance   *)
(* Cancelled with the snapshotted state restored, has rendered nothing,    *)
(* run no assembly and written no file; and a Cancelled instance never     *)
(* renders, assembles or writes a sheet afterwards.                        *)
(***************************************************************************)
C6_CancelStopsAndRestores ==
    [][\A i \in Ops :
          /\ hist'[i].escs = hist[i].escs + 1
               => /\ phase'[i] = "Cancelled"
                  /\ hist'[i].renders = hist[i].renders
                  /\ hist'[i].assembled = hist[i].assembled
                  /\ hist'[i].sheets = hist[i].sheets
                  /\ disk' = disk
                  /\ Restored(scene', anim', hist[i])
          /\ phase[i] = "Cancelled"
               => /\ phase'[i] = "Cancelled"
                  /\ hist'[i].renders = hist[i].renders
                  /\ hist'[i].assembled = 0
                  /\ hist'[i].sheets = <<>>]_vars

C6_Witness ==
    \E i \in Ops :
        /\ phase[i] = "Cancelled"
        /\ hist[i].escs = 1
        /\ Len(hist[i].renders) >= 1
        /\ Len(hist[i].renders) < TotalUnits(hist[i].plan)
        /\ \E j \in Ops : j # i /\ phase[j] = "Completed"

(***************************************************************************)
(* C7, as stated: once batch_cancel_requested is set while an instance is  *)
(* Running, the next timer tick that instance handles makes it Cancelled   *)
(* and renders nothing.                                                    *)
(***************************************************************************)
C7_CancelFlagPolled ==
    [][\A i \in Ops :
          (/\ phase[i] = "Running"
           /\ settings.batch_cancel_requested
           /\ hist'[i].ticks = hist[i].ticks + 1)
            => /\ phase'[i] = "Cancelled"
               /\ hist'[i].renders = hist[i].renders]_vars

(***************************************************************************)
(* C8, as stated: batch_processed_frames goes up by one with every unit    *)
(* rendered, never exceeds batch_total_frames, and a Completed run has     *)
(* left both equal to the number of units of its plan.                     *)
(***************************************************************************)
C8_ProcessedFramesCounts ==
    [][/\ settings'.batch_processed_frames <= settings'.batch_total_frames
       /\ \A i \in Ops :
            /\ (/\ Len(hist'[i].renders) = Len(hist[i].renders) + 1
                /\ phase'[i] = "Running")
                 => settings'.batch_processed_frames
                      = settings.batch_processed_frames + 1
            /\ (phase[i] = "Running" /\ phase'[i] = "Completed")
                 => /\ settings.batch_processed_frames = TotalUnits(hist[i].plan)
                    /\ settings.batch_total_frames = TotalUnits(hist[i].plan)]_vars

(***************************************************************************)
(* C9, as stated: when a run of T units is cancelled after it has handled  *)
(* N ticks (0 <= N < T), batch_processed_frames is N.                      *)
(***************************************************************************)
C9_ProcessedFramesAtCancel ==
    [][\A i \in Ops :
          (/\ phase[i] = "Running" /\ phase'[i] = "Cancelled"
           /\ hist[i].ticks < TotalUnits(hist[i].plan))
            => settings'.batch_processed_frames = hist[i].ticks]_vars

(***************************************************************************)
(* C10, as stated: batch_running is true exactly while a batch is between  *)
(* its entry to Running and its terminal transition.                       *)
(***************************************************************************)
C10_BatchRunningFlag ==
    settings.batch_running <=> (\E i \in Ops : phase[i] = "Running")

(***************************************************************************)
(* The functions of core.py called on their own.  The batch renderer is at *)
(* rest: no instance exists, and nothing it writes changes.                *)
(***************************************************************************)
\* sgg_classes.py: the defaults of SGG_GlobalSettings
DefaultSettings ==
    [directions |-> 8, frame_step |-> 1, output_dir |-> "//spritesheets/",
     delete_frame_pngs |-> TRUE, last_frame_render_seconds |-> 0,
     batch_running |-> FALSE, batch_cancel_requested |-> FALSE,
     batch_total_frames |-> 0, batch_processed_frames |-> 0]

IdleBatch ==
    /\ settings = DefaultSettings
    /\ scene = [frame_current |-> 0, filepath |-> <<"/tmp/", <<>>>>]
    /\ anim = [a \in Armatures |-> [has_ad |-> FALSE, action |-> None]]
    /\ wm_timers = {}
    /\ disk = [dirs |-> {}, files |-> {}]
    /\ op = [i \in Ops |-> NewOperator]
    /\ phase = [i \in Ops |-> "Unborn"]
    /\ hist = [i \in Ops |-> NewHistory]

(***************************************************************************)
(* BatchExecPlan.from_scene on its own.                                    *)
(***************************************************************************)
\* the planning states a plan is built from: items enabled or not, pointing at
\* an armature, at an object that is no armature or at nothing (the object was
\* deleted); action items enabled or not, their action there or deleted,
\* their range valid, of one frame or reversed
BuildStates ==
    {<<ArmaturePlanItem(first, first_enabled,
          <<[ActionPlanItem("Walk", walk_enabled, range[1], range[2])
                EXCEPT !.action = walk],
            ActionPlanItem("Run", run_enabled, 1, 1)>>),
       ArmaturePlanItem("Arm2", second_enabled,
          <<ActionPlanItem("Walk", TRUE, MaxFrame, MaxFrame)>>)>> :
        first \in {"Arm1", "Mesh1", None}, first_enabled \in BOOLEAN,
        walk \in {"Walk", None}, walk_enabled \in BOOLEAN,
        range \in {<<1, MaxFrame>>, <<1, 1>>, <<MaxFrame, 1>>},
        run_enabled \in BOOLEAN, second_enabled \in BOOLEAN}

PlanInit ==
    /\ IdleBatch
    /\ bpy_data = NoData
    /\ plan_armatures \in BuildStates
    /\ calc \in [call : {"none"}, directions : (0 - 1)..MaxDirections,
                 frame_step : (0 - 1)..MaxStep]

\* BatchExecPlan.from_scene(scene, directions, frame_step) is called
BuildPlan ==
    /\ calc.call = "none"
    /\ calc' = [call |-> "from_scene", directions |-> calc.directions,
                frame_step |-> calc.frame_step, n |-> 1, prev |-> NoPlan,
                ret |-> from_scene(plan_armatures, calc.directions, calc.frame_step)]
    /\ UNCHANGED <<plan_armatures, bpy_data, batch_vars>>

\* ... and called again on the same planning state
BuildPlanAgain ==
    /\ calc.call = "from_scene"
    /\ calc.n = 1
    /\ calc' = [calc EXCEPT
                  !.n = 2, !.prev = calc.ret,
                  !.ret = from_scene(plan_armatures, calc.directions, calc.frame_step)]
    /\ UNCHANGED <<plan_armatures, bpy_data, batch_vars>>

PlanNext == BuildPlan \/ BuildPlanAgain

SpecPlan == PlanInit /\ [][PlanNext]_vars

\* the (subject-entry, clip-entry) index pairs of a planning state from subject
\* k on, in subject order then clip order within subject
RECURSIVE PlanPairs(_, _)
PlanPairs(plan, k) ==
    IF k > Len(plan) THEN <<>>
    ELSE [j \in 1..Len(plan[k].actions) |-> <<k, j>>] \o PlanPairs(plan, k + 1)

\* the pair's subject-entry is enabled with a valid subject, its clip-entry is
\* enabled with a valid clip, and frame_end >= frame_start
InPlan(plan, kj) ==
    /\ plan[kj[1]].enabled
    /\ plan[kj[1]].armature # None
    /\ ObjType(plan[kj[1]].armature) = "ARMATURE"
    /\ plan[kj[1]].actions[kj[2]].enabled
    /\ plan[kj[1]].actions[kj[2]].action # None
    /\ plan[kj[1]].actions[kj[2]].frame_end >= plan[kj[1]].actions[kj[2]].frame_start

\* the entries of the given pairs, each with FrameRange(frame_start, frame_end, step)
EntriesOf(plan, pairs, step) ==
    [n \in 1..Len(pairs) |->
        [armature_obj |-> plan[pairs[n][1]].armature,
         action |-> plan[pairs[n][1]].actions[pairs[n][2]].action,
         frame_range |->
             [start |-> plan[pairs[n][1]].actions[pairs[n][2]].frame_start,
              end |-> plan[pairs[n][1]].actions[pairs[n][2]].frame_end,
              step |-> step]]]

(***************************************************************************)
(* C11: the plan built from a planning state has as entries the (subject,  *)
(* clip) pairs of the planning state in subject order then clip order,     *)
(* filtered to those whose subject-entry is enabled with a valid subject,  *)
(* whose clip-entry is enabled with a valid clip and whose frame_end >=    *)
(* frame_start, each with FrameRange(frame_start, frame_end,               *)
(* max(1, frame_step)); building a second time gives the same plan.        *)
(***************************************************************************)
C11_PlanEntries ==
    calc.call = "from_scene" =>
        /\ calc.ret.actions =
              EntriesOf(plan_armatures,
                        SelectSeq(PlanPairs(plan_armatures, 1),
                                  LAMBDA kj : InPlan(plan_armatures, kj)),
                        Max(1, calc.frame_step))
        /\ calc.n = 2 => calc.ret = calc.prev

C11_Witness ==
    /\ calc.call = "from_scene"
    /\ calc.n = 2
    /\ calc.frame_step = 0
    /\ Len(calc.ret.actions) = 2
    /\ plan_armatures[1].armature = "Arm1"
    /\ plan_armatures[1].actions[1].frame_end < plan_armatures[1].actions[1].frame_start
    /\ plan_armatures[1].actions[2].enabled

(***************************************************************************)
(* FrameRangePlan.frames() on its own.                                     *)
(***************************************************************************)
\* the start and end values of a frame range: IntProperty values, negative too
FrameValues == (0 - MaxFrame - 1)..(MaxFrame + 1)

FramesInit ==
    /\ IdleBatch
    /\ bpy_data = NoData
    /\ plan_armatures = <<>>
    /\ calc \in [call : {"FrameRangePlan"}, start : FrameValues, end : FrameValues,
                 step : 1..(MaxStep + 1)]

\* FrameRangePlan(start, end, step).frames() is called and iterated
FramesCall ==
    /\ calc.call = "FrameRangePlan"
    /\ calc' = [call |-> "frames", start |-> calc.start, end |-> calc.end,
                step |-> calc.step,
                ret |-> frames(FrameRangePlan(calc.start, calc.end, calc.step))]
    /\ UNCHANGED <<plan_armatures, bpy_data, batch_vars>>

FramesNext == FramesCall

SpecFrames == FramesInit /\ [][FramesNext]_vars

(***************************************************************************)
(* C12: for step >= 1, frames() is empty when end < start, and otherwise   *)
(* is the strictly increasing sequence start, start + step, ... of the     *)
(* values <= end, of length ((end - start) // step) + 1.                   *)
(***************************************************************************)
C12_FramesSequence ==
    calc.call = "frames" =>
        IF calc.end < calc.start THEN calc.ret = <<>>
        ELSE /\ Len(calc.ret) = ((calc.end - calc.start) \div calc.step) + 1
             /\ \A k \in 1..Len(calc.ret) :
                   /\ calc.ret[k] = calc.start + (k - 1) * calc.step
                   /\ calc.ret[k] <= calc.end
                   /\ k > 1 => calc.ret[k - 1] < calc.ret[k]
             /\ calc.ret[Len(calc.ret)] + calc.step > calc.end

C12_Witness ==
    /\ calc.call = "frames"
    /\ calc.start < 0
    /\ calc.step = 2
    /\ Len(calc.ret) = 3
    /\ calc.ret[3] < calc.end

(***************************************************************************)
(* ops.py: the plan synchronizer SGG_OT_plan_and_run._build_plan, with the *)
(* functions of core.py it calls.  The host stores frame numbers of strips *)
(* and actions as floats: they are counted here in half frames.            *)
(***************************************************************************)
\* bounds on what happens between two runs of the synchronizer in one behaviour:
\* changes of the scene and edits of the planning state in the dialog
MaxChanges == 1
MaxEdits == 1

SeqSet(seq) == {seq[n] : n \in DOMAIN seq}

\* int(x) of a float given in half frames: truncation towards zero
PyInt(halves) == IF halves >= 0 THEN halves \div 2 ELSE 0 - ((0 - halves) \div 2)

\* action.frame_range, in half frames
ActionFrameRange(action) ==
    CASE action = "Walk" -> <<2, 7>>
      [] action = "Run" -> <<0 - 3, 4>>
      [] OTHER -> <<0, 0>>

\* an NLA strip; frame_start and frame_end in half frames
Strip(action, frame_start, frame_end) ==
    [action |-> action, frame_start |-> frame_start, frame_end |-> frame_end]

\* the strips that can be placed on an armature's NLA tracks
Strips == {Strip("Walk", 5, 9), Strip("Walk", 0 - 1, 6), Strip("Run", 4, 8)}

\* find_armatures_in_collection
find_armatures_in_collection(data) ==
    IF data.collection = None THEN <<>>
    ELSE SelectSeq(data.objects, LAMBDA obj : ObjType(obj) = "ARMATURE")

\* find_actions_for_armature, lines 44-49: the loop over the strips of the tracks
RECURSIVE find_actions_nla(_, _, _)
find_actions_nla(strips, n, actions) ==
    IF n > Len(strips) THEN actions
    ELSE find_actions_nla(strips, n + 1,
            IF strips[n].action # None /\ strips[n].action \notin SeqSet(actions)
            THEN Append(actions, strips[n].action)
            ELSE actions)

\* find_actions_for_armature; ad is armature.animation_data
find_actions_for_armature(ad) ==
    IF ~ad.has_ad THEN <<>>
    ELSE find_actions_nla(ad.strips, 1,
                          IF ad.action # None THEN <<ad.action>> ELSE <<>>)

\* compute_action_frame_range
compute_action_frame_range(action) ==
    <<PyInt(ActionFrameRange(action)[1]), PyInt(ActionFrameRange(action)[2])>>

\* compute_effective_action_frame_range, lines 72-81
RECURSIVE effective_range_nla(_, _, _)
effective_range_nla(strips, n, action) ==
    IF n > Len(strips) THEN compute_action_frame_range(action)
    ELSE IF strips[n].action = action
    THEN <<PyInt(strips[n].frame_start), PyInt(strips[n].frame_end)>>
    ELSE effective_range_nla(strips, n + 1, action)

\* compute_effective_action_frame_range that never looks at the strips
effective_range_ignores_nla(ad, action) == compute_action_frame_range(action)

\* compute_effective_action_frame_range
compute_effective_action_frame_range(ad, action) ==
    IF ad.has_ad THEN effective_range_nla(ad.strips, 1, action)
    ELSE compute_action_frame_range(action)

\* _build_plan, lines 97-102: plan.add() and the fields set on the new item
NewArmatureItem(obj) ==
    [armature |-> obj, name |-> ObjName(obj), enabled |-> TRUE,
     ui_expanded |-> TRUE, actions |-> <<>>]

\* _build_plan, lines 121-128: arm_item.actions.add() and the fields set on it
NewActionItem(action, range) ==
    [action |-> action, name |-> ActionName(action), enabled |-> FALSE,
     frame_start |-> range[1], frame_end |-> range[2], reverse_playback |-> FALSE]

\* the keys of existing_arms_by_obj / existing_actions_by_action
ExistingArmatures(plan) == {plan[k].armature : k \in DOMAIN plan} \ {None}
ExistingActions(act_items) == {act_items[j].action : j \in DOMAIN act_items} \ {None}

\* existing_arms_by_obj.get(obj): the last item of the plan pointing at obj
ItemIndex(plan, obj) ==
    CHOOSE k \in DOMAIN plan :
        /\ plan[k].armature = obj
        /\ \A j \in DOMAIN plan : plan[j].armature = obj => j <= k

\* add_action_items that takes every action for a new one
RECURSIVE add_action_items_always_new(_, _, _, _, _)
add_action_items_always_new(ad, act_items, existing, actions, n) ==
    IF n > Len(actions) THEN act_items
    ELSE add_action_items_always_new(ad,
            Append(act_items,
                   NewActionItem(actions[n],
                                 compute_effective_action_frame_range(ad, actions[n]))),
            existing, actions, n + 1)

\* add_action_items that puts a new item before the items there are
RECURSIVE add_action_items_new_first(_, _, _, _, _)
add_action_items_new_first(ad, act_items, existing, actions, n) ==
    IF n > Len(actions) THEN act_items
    ELSE add_action_items_new_first(ad,
            IF actions[n] \in existing THEN act_items
            ELSE <<NewActionItem(actions[n],
                                 compute_effective_action_frame_range(ad,
                                                                     actions[n]))>>
                 \o act_items,
            existing, actions, n + 1)

\* _build_plan, lines 116-129: an action item for each current action
RECURSIVE add_action_items(_, _, _, _, _)
add_action_items(ad, act_items, existing, actions, n) ==
    IF n > Len(actions) THEN act_items
    ELSE add_action_items(ad,
            IF actions[n] \in existing THEN act_items
            ELSE Append(act_items,
                        NewActionItem(actions[n],
                                      compute_effective_action_frame_range(ad,
                                                                          actions[n]))),
            existing, actions, n + 1)

\* sync_actions that keeps the items of actions no longer used
sync_actions_keeps_stale(ad, act_items, actions) ==
    add_action_items(ad, act_items, ExistingActions(act_items), actions, 1)

\* _build_plan, lines 104-135: the action items of one armature item
sync_actions(ad, act_items, actions) ==
    SelectSeq(add_action_items(ad, act_items, ExistingActions(act_items), actions, 1),
              LAMBDA act_item : /\ act_item.action # None
                                /\ act_item.action \in SeqSet(actions))

\* sync_item that puts the defaults of a new item into the item it syncs
sync_item_resets_flags(data, plan, k, obj) ==
    [plan EXCEPT ![k].enabled = TRUE, ![k].ui_expanded = TRUE,
                 ![k].actions = sync_actions(data.ad[obj], @,
                                             find_actions_for_armature(data.ad[obj]))]

\* _build_plan, lines 104-135, on the item at index k of the plan
sync_item(data, plan, k, obj) ==
    [plan EXCEPT ![k].actions = sync_actions(data.ad[obj], @,
                                             find_actions_for_armature(data.ad[obj]))]

\* sync_armature that adds an item for every armature
sync_armature_always_new(data, existing, plan, obj) ==
    sync_item(data, Append(plan, NewArmatureItem(obj)), Len(plan) + 1, obj)

\* _build_plan, lines 94-135: one iteration of the loop over the armatures;
\* existing is the plan as it was when existing_arms_by_obj was filled
sync_armature(data, existing, plan, obj) ==
    IF obj \in ExistingArmatures(existing)
    THEN sync_item(data, plan, ItemIndex(existing, obj), obj)
    ELSE sync_item(data, Append(plan, NewArmatureItem(obj)), Len(plan) + 1, obj)

\* _build_plan, lines 93-135: the loop over the armatures
RECURSIVE sync_armatures(_, _, _, _, _)
sync_armatures(data, existing, plan, armatures, n) ==
    IF n > Len(armatures) THEN plan
    ELSE sync_armatures(data, existing,
                        sync_armature(data, existing, plan, armatures[n]),
                        armatures, n + 1)

\* _build_plan, lines 81-141, with the armatures of the collection
build_plan_armatures(plan, data, armatures) ==
    SelectSeq(sync_armatures(data, plan, plan, armatures, 1),
              LAMBDA arm_item : /\ arm_item.armature # None
                                /\ arm_item.armature \in SeqSet(armatures))

\* _build_plan
build_plan(plan, data) ==
    IF data.collection = None THEN plan
    ELSE build_plan_armatures(plan, data, find_armatures_in_collection(data))

(***************************************************************************)
(* The planning dialog: runs of the synchronizer, changes of the scene     *)
(* between them and edits of the planning state.                           *)
(***************************************************************************)
Objects == Armatures \cup {"Mesh1"}

NoAnimationData == [has_ad |-> FALSE, action |-> None, strips |-> <<>>]
AnimationData(action, strips) == [has_ad |-> TRUE, action |-> action, strips |-> strips]

\* the scenes the dialog is first opened on
SyncScenes ==
    [collection : {None, "Coll"},
     objects : {<<>>, <<"Arm1", "Mesh1", "Arm2">>, <<"Arm2", "Arm1">>},
     live : {Objects \cup Actions},
     ad : {[a \in Armatures |-> IF a = "Arm1" THEN first ELSE second] :
             first \in {NoAnimationData,
                        AnimationData("Walk", <<>>),
                        AnimationData(None, <<Strip("Walk", 5, 9),
                                              Strip("Walk", 0 - 1, 6),
                                              Strip("Run", 4, 8)>>),
                        AnimationData("Run", <<Strip("Walk", 0 - 1, 6)>>)},
             second \in {NoAnimationData, AnimationData("Walk", <<>>)}}]

\* the values a user types into a frame field
UserFrames == {7}

SyncInit ==
    /\ IdleBatch
    /\ plan_armatures = <<>>
    /\ bpy_data \in SyncScenes
    /\ calc = [call |-> "none", before |-> <<>>, again |-> FALSE,
               changes |-> 0, edits |-> 0]

\* SGG_OT_plan_and_run.invoke: the dialog opens and _build_plan runs
Invoke ==
    /\ plan_armatures' = build_plan(plan_armatures, bpy_data)
    /\ calc' = [calc EXCEPT !.call = "_build_plan", !.before = plan_armatures,
                            !.again = (calc.call = "_build_plan")]
    /\ UNCHANGED <<bpy_data, batch_vars>>

\* the scene becomes data
SceneChange(data) ==
    /\ calc.changes < MaxChanges
    /\ bpy_data' = data
    /\ calc' = [calc EXCEPT !.call = "change", !.before = <<>>, !.again = FALSE,
                            !.changes = @ + 1]

\* the user picks another source collection, or none
SelectCollection ==
    /\ SceneChange([bpy_data EXCEPT
                      !.collection = IF @ = None THEN "Coll" ELSE None])
    /\ UNCHANGED <<plan_armatures, batch_vars>>

\* an object is linked to the collection
Link(obj) ==
    /\ obj \in bpy_data.live
    /\ obj \notin SeqSet(bpy_data.objects)
    /\ SceneChange([bpy_data EXCEPT !.objects = Append(@, obj)])
    /\ UNCHANGED <<plan_armatures, batch_vars>>

\* an object is unlinked from the collection
Unlink(obj) ==
    /\ obj \in SeqSet(bpy_data.objects)
    /\ SceneChange([bpy_data EXCEPT
                      !.objects = SelectSeq(@, LAMBDA o : o # obj)])
    /\ UNCHANGED <<plan_armatures, batch_vars>>

\* an armature's active action is set (None: cleared)
SetActiveAction(arm, action) ==
    /\ action = None \/ action \in bpy_data.live
    /\ bpy_data.ad[arm].has_ad => bpy_data.ad[arm].action # action
    /\ SceneChange([bpy_data EXCEPT
                      !.ad[arm] = [@ EXCEPT !.has_ad = TRUE, !.action = action]])
    /\ UNCHANGED <<plan_armatures, batch_vars>>

\* a strip is placed on an armature's NLA tracks, after the others
AddStrip(arm, strip) ==
    /\ strip.action \in bpy_data.live
    /\ strip \notin SeqSet(bpy_data.ad[arm].strips)
    /\ SceneChange([bpy_data EXCEPT
                      !.ad[arm] = [@ EXCEPT !.has_ad = TRUE,
                                            !.strips = Append(@, strip)]])
    /\ UNCHANGED <<plan_armatures, batch_vars>>

\* the first strip of an armature is removed
RemoveStrip(arm) ==
    /\ bpy_data.ad[arm].strips # <<>>
    /\ SceneChange([bpy_data EXCEPT !.ad[arm].strips = Tail(@)])
    /\ UNCHANGED <<plan_armatures, batch_vars>>

\* every pointer to a deleted datablock becomes None
Unpointed(plan, id) ==
    [k \in DOMAIN plan |->
        [plan[k] EXCEPT
           !.armature = IF @ = id THEN None ELSE @,
           !.actions = [j \in DOMAIN @ |->
                          [@[j] EXCEPT !.action = IF @ = id THEN None ELSE @]]]]

\* bpy.data.actions.remove(action)
DeleteAction(action) ==
    /\ action \in bpy_data.live
    /\ SceneChange([bpy_data EXCEPT
          !.live = @ \ {action},
          !.ad = [a \in Armatures |->
                    [@[a] EXCEPT
                       !.action = IF @ = action THEN None ELSE @,
                       !.strips = [n \in DOMAIN @ |->
                                     [@[n] EXCEPT
                                        !.action = IF @ = action THEN None
                                                   ELSE @]]]]])
    /\ plan_armatures' = Unpointed(plan_armatures, action)
    /\ UNCHANGED batch_vars

\* bpy.data.objects.remove(obj)
DeleteObject(obj) ==
    /\ obj \in bpy_data.live
    /\ SceneChange([bpy_data EXCEPT
          !.live = @ \ {obj},
          !.objects = SelectSeq(@, LAMBDA o : o # obj)])
    /\ plan_armatures' = Unpointed(plan_armatures, obj)
    /\ UNCHANGED batch_vars

\* the planning state becomes plan by an edit in the dialog
PlanEdit(plan) ==
    /\ calc.edits < MaxEdits
    /\ plan_armatures' = plan
    /\ calc' = [calc EXCEPT !.call = "edit", !.before = <<>>, !.again = FALSE,
                            !.edits = @ + 1]
    /\ UNCHANGED <<bpy_data, batch_vars>>

\* draw, lines 244-251: the checkbox and the triangle of an armature row
EditArmature(k) ==
    /\ k \in DOMAIN plan_armatures
    /\ \/ PlanEdit([plan_armatures EXCEPT ![k].enabled = ~@])
       \/ PlanEdit([plan_armatures EXCEPT ![k].ui_expanded = ~@])

\* draw, lines 295-309: the checkbox and the reverse flag of an action row
EditAction(k, j) ==
    /\ k \in DOMAIN plan_armatures
    /\ j \in DOMAIN plan_armatures[k].actions
    /\ \/ PlanEdit([plan_armatures EXCEPT ![k].actions[j].enabled = ~@])
       \/ PlanEdit([plan_armatures EXCEPT ![k].actions[j].reverse_playback = ~@])

\* draw, lines 311-312: the frame fields of an action row
EditFrames(k, j) ==
    /\ k \in DOMAIN plan_armatures
    /\ j \in DOMAIN plan_armatures[k].actions
    /\ \E frame \in UserFrames :
          \/ PlanEdit([plan_armatures EXCEPT ![k].actions[j].frame_start = frame])
          \/ PlanEdit([plan_armatures EXCEPT ![k].actions[j].frame_end = frame])

SyncNext ==
    \/ Invoke
    \/ SelectCollection
    \/ \E obj \in Objects : Link(obj)
    \/ \E obj \in Objects : Unlink(obj)
    \/ \E arm \in Armatures, action \in Actions \cup {None} :
          SetActiveAction(arm, action)
    \/ \E strip \in Strips : AddStrip("Arm1", strip)
    \/ RemoveStrip("Arm1")
    \/ DeleteAction("Run")
    \/ DeleteObject("Arm2")
    \/ \E k \in 1..Cardinality(Armatures) : EditArmature(k)
    \/ \E k \in 1..Cardinality(Armatures), j \in 1..Cardinality(Actions) :
          EditAction(k, j)
    \/ \E k \in 1..Cardinality(Armatures), j \in 1..Cardinality(Actions) :
          EditFrames(k, j)

SpecSync == SyncInit /\ [][SyncNext]_vars

\* the currently eligible subjects: the armatures of the selected collection
EligibleSubjects(data) ==
    IF data.collection = None THEN {}
    ELSE {obj \in SeqSet(data.objects) : ObjType(obj) = "ARMATURE"}

\* the currently eligible clips of a subject: its active clip and every clip
\* referenced by a placed strip
EligibleClips(ad) ==
    IF ~ad.has_ad THEN {}
    ELSE ({ad.action} \cup {ad.strips[n].action : n \in DOMAIN ad.strips}) \ {None}

\* the subjects having a subject-entry, the clips having a clip-entry
SubjectsOf(plan) == {plan[k].armature : k \in DOMAIN plan} \ {None}
ClipsOf(arm_item) ==
    {arm_item.actions[j].action : j \in DOMAIN arm_item.actions} \ {None}

\* the clips having a clip-entry under a subject-entry of the subject
ClipsUnder(plan, subject) ==
    UNION {ClipsOf(plan[k]) : k \in {n \in DOMAIN plan : plan[n].armature = subject}}

(***************************************************************************)
(* C13: a second run of the synchronizer with no change of the scene and   *)
(* no edit since the first changes nothing: the planning state after it    *)
(* (entries, their order, every field) is the one before it.               *)
(***************************************************************************)
C13_SecondRunNoOp ==
    (calc.call = "_build_plan" /\ calc.again) => plan_armatures = calc.before

C13_Witness ==
    /\ calc.call = "_build_plan"
    /\ calc.again
    /\ calc.edits = 1
    /\ Len(plan_armatures) = 2
    /\ \E k \in DOMAIN plan_armatures :
          /\ Len(plan_armatures[k].actions) = 2
          /\ plan_armatures[k].actions[2].enabled

\* the clip-entry is in the subject-entry after the run, its user-edited
\* fields as they were
ClipKept(clip_item, arm_item) ==
    \E j \in DOMAIN arm_item.actions :
        /\ arm_item.actions[j].action = clip_item.action
        /\ arm_item.actions[j].enabled = clip_item.enabled
        /\ arm_item.actions[j].frame_start = clip_item.frame_start
        /\ arm_item.actions[j].frame_end = clip_item.frame_end
        /\ arm_item.actions[j].reverse_playback = clip_item.reverse_playback

\* the subject-entry is in the plan after the run, its user-edited fields and
\* those of its clip-entries that are still eligible or still there as they were
SubjectKept(old_item, plan, data) ==
    \E k \in DOMAIN plan :
        /\ plan[k].armature = old_item.armature
        /\ plan[k].enabled = old_item.enabled
        /\ plan[k].ui_expanded = old_item.ui_expanded
        /\ \A j \in DOMAIN old_item.actions :
              (/\ old_item.actions[j].action # None
               /\ \/ old_item.actions[j].action
                        \in EligibleClips(data.ad[old_item.armature])
                  \/ old_item.actions[j].action \in ClipsOf(plan[k]))
                => ClipKept(old_item.actions[j], plan[k])

(***************************************************************************)
(* C14: a run of the synchronizer leaves the user-edited fields of every   *)
(* entry that survives it as they were: enabled and ui_expanded of the     *)
(* subject-entry of each subject still eligible (it does survive), and     *)
(* enabled, frame_start, frame_end and reverse_playback of the clip-entry  *)
(* of each clip still eligible on it, whatever was added to or removed     *)
(* from the scene.                                                         *)
(***************************************************************************)
C14_EditsPreserved ==
    calc.call = "_build_plan" =>
        \A k \in DOMAIN calc.before :
            (/\ calc.before[k].armature # None
             /\ \/ calc.before[k].armature \in EligibleSubjects(bpy_data)
                \/ calc.before[k].armature \in SubjectsOf(plan_armatures))
              => SubjectKept(calc.before[k], plan_armatures, bpy_data)

C14_Witness ==
    /\ calc.call = "_build_plan"
    /\ calc.changes = 1
    /\ calc.edits = 1
    /\ bpy_data.collection # None
    /\ Len(plan_armatures) < Len(calc.before)
    /\ \E k \in DOMAIN plan_armatures :
          /\ plan_armatures[k].armature \in SubjectsOf(calc.before)
          /\ Len(plan_armatures[k].actions) = 2
          /\ plan_armatures[k].actions[1].frame_start \in UserFrames

\* a float given in half frames, cut to a whole number of frames towards zero
TowardsZero(halves) ==
    CHOOSE n \in (0 - 8)..8 :
        \/ halves >= 0 /\ 2 * n <= halves /\ halves < 2 * n + 2
        \/ halves < 0 /\ 2 * n >= halves /\ halves > 2 * n - 2

\* the range, in half frames, of the first placed strip of the subject that
\* references the clip if there is one, else the clip's own authored range
DefaultRange(ad, clip) ==
    IF \E n \in DOMAIN ad.strips : ad.strips[n].action = clip
    THEN <<ad.strips[CHOOSE n \in DOMAIN ad.strips :
                       /\ ad.strips[n].action = clip
                       /\ \A m \in 1..(n - 1) : ad.strips[m].action # clip].frame_start,
           ad.strips[CHOOSE n \in DOMAIN ad.strips :
                       /\ ad.strips[n].action = clip
                       /\ \A m \in 1..(n - 1) : ad.strips[m].action # clip].frame_end>>
    ELSE ActionFrameRange(clip)

\* the subject-entries and clip-entries the run created
CreatedSubjects(before, plan) ==
    {k \in DOMAIN plan : plan[k].armature # None
                         /\ plan[k].armature \notin SubjectsOf(before)}
CreatedClips(before, plan, k) ==
    {j \in DOMAIN plan[k].actions :
        /\ plan[k].armature # None
        /\ plan[k].actions[j].action # None
        /\ plan[k].actions[j].action \notin ClipsUnder(before, plan[k].armature)}

(***************************************************************************)
(* C15, as stated: a subject-entry the synchronizer creates has enabled    *)
(* and ui_expanded true; a clip-entry it creates has enabled false and     *)
(* frame_start / frame_end equal to the range of the first placed strip on *)
(* the subject that references the clip if there is one, else to the       *)
(* clip's own authored range.                                              *)
(***************************************************************************)
C15_NewEntryDefaults ==
    calc.call = "_build_plan" =>
        /\ \A k \in CreatedSubjects(calc.before, plan_armatures) :
              plan_armatures[k].enabled /\ plan_armatures[k].ui_expanded
        /\ \A k \in DOMAIN plan_armatures :
              \A j \in CreatedClips(calc.before, plan_armatures, k) :
                  /\ ~plan_armatures[k].actions[j].enabled
                  /\ 2 * plan_armatures[k].actions[j].frame_start
                       = DefaultRange(bpy_data.ad[plan_armatures[k].armature],
                                      plan_armatures[k].actions[j].action)[1]
                  /\ 2 * plan_armatures[k].actions[j].frame_end
                       = DefaultRange(bpy_data.ad[plan_armatures[k].armature],
                                      plan_armatures[k].actions[j].action)[2]

(***************************************************************************)
(* C15, amended: a subject-entry the synchronizer creates has enabled and  *)
(* ui_expanded true; a clip-entry it creates has enabled false and         *)
(* frame_start / frame_end equal to the bounds, each cut to a whole frame  *)
(* towards zero, of the range of the first placed strip on the subject     *)
(* that references the clip if there is one, else of the clip's own        *)
(* authored range.                                                         *)
(***************************************************************************)
C15_NewEntryDefaultsWholeFrames ==
    calc.call = "_build_plan" =>
        /\ \A k \in CreatedSubjects(calc.before, plan_armatures) :
              plan_armatures[k].enabled /\ plan_armatures[k].ui_expanded
        /\ \A k \in DOMAIN plan_armatures :
              \A j \in CreatedClips(calc.before, plan_armatures, k) :
                  /\ ~plan_armatures[k].actions[j].enabled
                  /\ plan_armatures[k].actions[j].frame_start
                       = TowardsZero(
                           DefaultRange(bpy_data.ad[plan_armatures[k].armature],
                                        plan_armatures[k].actions[j].action)[1])
                  /\ plan_armatures[k].actions[j].frame_end
                       = TowardsZero(
                           DefaultRange(bpy_data.ad[plan_armatures[k].armature],
                                        plan_armatures[k].actions[j].action)[2])

C15_Witness ==
    /\ calc.call = "_build_plan"
    /\ \E k \in CreatedSubjects(calc.before, plan_armatures) :
          /\ plan_armatures[k].armature = "Arm1"
          /\ Len(bpy_data.ad["Arm1"].strips) = 3
          /\ CreatedClips(calc.before, plan_armatures, k) = {1, 2}
          /\ plan_armatures[k].actions[1].action = "Walk"
          /\ plan_armatures[k].actions[1].frame_start = 2
          /\ plan_armatures[k].actions[1].frame_end = 4

(***************************************************************************)
(* C16: after every run of the synchronizer the subjects having a          *)
(* subject-entry are the currently eligible subjects of the selected       *)
(* collection (none when no collection is selected), and the clips having  *)
(* a clip-entry under a subject-entry are the subject's currently eligible *)
(* clips.                                                                  *)
(***************************************************************************)
C16_EntriesAreEligible ==
    calc.call = "_build_plan" =>
        /\ SubjectsOf(plan_armatures) = EligibleSubjects(bpy_data)
        /\ \A k \in DOMAIN plan_armatures :
              plan_armatures[k].armature # None
                => ClipsOf(plan_armatures[k])
                     = EligibleClips(bpy_data.ad[plan_armatures[k].armature])

(***************************************************************************)
(* C17: starting from an empty planning state, after any runs of the       *)
(* synchronizer, changes of the scene and edits, the planning state has at *)
(* most one subject-entry per subject and at most one clip-entry per clip  *)
(* within each subject-entry.                                              *)
(***************************************************************************)
C17_NoDuplicateEntries ==
    /\ \A k1, k2 \in DOMAIN plan_armatures :
          (k1 # k2 /\ plan_armatures[k1].armature # None)
            => plan_armatures[k1].armature # plan_armatures[k2].armature
    /\ \A k \in DOMAIN plan_armatures :
          \A j1, j2 \in DOMAIN plan_armatures[k].actions :
              (j1 # j2 /\ plan_armatures[k].actions[j1].action # None)
                => plan_armatures[k].actions[j1].action
                     # plan_armatures[k].actions[j2].action

C17_Witness ==
    /\ calc.call = "_build_plan"
    /\ calc.changes = 1
    /\ calc.edits = 1
    /\ calc.before # <<>>
    /\ calc.before # plan_armatures
    /\ Len(plan_armatures) = 2
    /\ Len(plan_armatures[1].actions) = 2
    /\ plan_armatures[1].actions[1].enabled

(***************************************************************************)
(* batch_rendering.py: the pixels of the sheets _assemble_spritesheets     *)
(* composes.  An image is its size and its pixel list, 4 components a      *)
(* pixel, rows from the bottom; images maps the paths that load to images. *)
(***************************************************************************)
\* bounds on the rendered-frame index handed to the assembler and on the frames
MaxSheetDirections == 2
MaxSheetFrames == 3
MaxFrameSize == 4

Min(a, b) == IF a <= b THEN a ELSE b

\* seq[lo:hi] for 0 <= lo <= hi
PySlice(seq, lo, hi) == SubSeq(seq, Min(lo, Len(seq)) + 1, Min(hi, Len(seq)))

\* seq[lo:hi] = val for 0 <= lo <= hi: the slice is replaced, whatever the
\* length of val
PySliceAssign(seq, lo, hi, val) ==
    SubSeq(seq, 1, Min(lo, Len(seq))) \o val
    \o SubSeq(seq, Min(hi, Len(seq)) + 1, Len(seq))

\* [0.0] * n
Zeros(n) == [k \in 1..n |-> 0]

\* lines 280-284: the sizes of a sheet
sheet_geometry(frame_w, frame_h, cols, rows) ==
    [frame_w |-> frame_w, frame_h |-> frame_h, cols |-> cols, rows |-> rows,
     sheet_w |-> frame_w * cols, sheet_h |-> frame_h * rows]

\* dest_row without the vertical flip
dest_row_unflipped(rows, row_idx) == row_idx

\* line 320: dest_row = rows - 1 - row_idx
dest_row(rows, row_idx) == rows - 1 - row_idx

\* copy_row with every frame written to column 0
copy_row_first_column(sheet_pixels, frame_pixels, g, dest, col_idx, fy) ==
    PySliceAssign(sheet_pixels,
        ((dest * g.frame_h + fy) * g.sheet_w) * 4,
        ((dest * g.frame_h + fy) * g.sheet_w) * 4 + g.frame_w * 4,
        PySlice(frame_pixels, fy * g.frame_w * 4,
                fy * g.frame_w * 4 + g.frame_w * 4))

\* lines 323-332: one pixel row of a frame is copied into the sheet
copy_row(sheet_pixels, frame_pixels, g, dest, col_idx, fy) ==
    PySliceAssign(sheet_pixels,
        ((dest * g.frame_h + fy) * g.sheet_w + col_idx * g.frame_w) * 4,
        ((dest * g.frame_h + fy) * g.sheet_w + col_idx * g.frame_w) * 4
            + g.frame_w * 4,
        PySlice(frame_pixels, fy * g.frame_w * 4,
                fy * g.frame_w * 4 + g.frame_w * 4))

\* lines 322-332: the loop over the pixel rows of a frame
RECURSIVE copy_rows(_, _, _, _, _, _)
copy_rows(sheet_pixels, frame_pixels, g, dest, col_idx, fy) ==
    IF fy >= g.frame_h THEN sheet_pixels
    ELSE copy_rows(copy_row(sheet_pixels, frame_pixels, g, dest, col_idx, fy),
                   frame_pixels, g, dest, col_idx, fy + 1)

\* lines 300-334: the loop over the frames of one direction; a frame whose
\* image does not load is passed over
RECURSIVE fill_columns(_, _, _, _, _, _)
fill_columns(sheet_pixels, images, frame_paths, g, row_idx, col_idx) ==
    IF col_idx >= Len(frame_paths) \/ col_idx >= g.cols THEN sheet_pixels
    ELSE fill_columns(
           IF frame_paths[col_idx + 1] \notin DOMAIN images THEN sheet_pixels
           ELSE copy_rows(sheet_pixels, images[frame_paths[col_idx + 1]].pixels, g,
                          dest_row(g.rows, row_idx), col_idx, 0),
           images, frame_paths, g, row_idx, col_idx + 1)

\* lines 298-334: the loop over the directions
RECURSIVE fill_rows(_, _, _, _, _, _)
fill_rows(sheet_pixels, images, dirs_dict, direction_indices, g, row_idx) ==
    IF row_idx >= Len(direction_indices) THEN sheet_pixels
    ELSE fill_rows(
           fill_columns(sheet_pixels, images,
                        DictGet(dirs_dict, direction_indices[row_idx + 1]),
                        g, row_idx, 0),
           images, dirs_dict, direction_indices, g, row_idx + 1)

\* lines 286-336: the sheet image of one action group
compose_sheet(images, action_index, dirs_dict, direction_indices, g) ==
    <<[action_index |-> action_index,
       width |-> g.sheet_w, height |-> g.sheet_h,
       frame_w |-> g.frame_w, frame_h |-> g.frame_h,
       cols |-> g.cols, rows |-> g.rows,
       pixels |-> fill_rows(Zeros(g.sheet_w * g.sheet_h * 4), images, dirs_dict,
                            direction_indices, g, 0)]>>

\* lines 255-284: the tests that skip an action group, and the sizes
compose_checked(images, action_index, dirs_dict, direction_indices) ==
    IF direction_indices = <<>> THEN <<>>
    ELSE IF DictGet(dirs_dict, direction_indices[1]) = <<>> THEN <<>>
    ELSE IF DictGet(dirs_dict, direction_indices[1])[1] \notin DOMAIN images
    THEN <<>>
    ELSE IF MaxFrames(dirs_dict) = 0 THEN <<>>
    ELSE compose_sheet(images, action_index, dirs_dict, direction_indices,
           sheet_geometry(
               images[DictGet(dirs_dict, direction_indices[1])[1]].width,
               images[DictGet(dirs_dict, direction_indices[1])[1]].height,
               MaxFrames(dirs_dict), Len(direction_indices)))

\* lines 247-336: the sheets of the action groups, in the order of the groups
RECURSIVE compose_groups(_, _, _, _)
compose_groups(images, n_actions, actions_group, n) ==
    IF n > Len(actions_group) THEN <<>>
    ELSE (IF actions_group[n].k < 0 \/ actions_group[n].k >= n_actions THEN <<>>
          ELSE compose_checked(images, actions_group[n].k, actions_group[n].v,
                               SortedSeq(DictKeys(actions_group[n].v))))
         \o compose_groups(images, n_actions, actions_group, n + 1)

\* lines 241-336 of _assemble_spritesheets: the sheet images it composes
compose_sheets(images, n_actions, frame_paths) ==
    compose_groups(images, n_actions, group_frame_paths(frame_paths, 1, <<>>), 1)

(***************************************************************************)
(* The assembler on its own: a rendered-frame index and the frame images.  *)
(***************************************************************************)
\* the path recorded for column c (from 0) of direction d of action index a
SheetFramePath(a, d, c) ==
    PathJoin("/out/", FrameFileName("Arm1", IF a = 0 THEN "Walk" ELSE "Run", d, c + 1))

\* the value of channel ch of pixel (x, y) of the frame rendered for column c
\* of direction d of action index a: a number above 0 that no other component
\* of any frame has
Component(a, d, c, x, y, ch) ==
    1 + ch + 4 * (x + (MaxFrameSize + 1) * (y + (MaxFrameSize + 1)
                    * (c + MaxSheetFrames * (d + MaxSheetDirections * a))))

\* a rendered frame: every component tells where it comes from
FrameImage(a, d, c, width, height) ==
    [width |-> width, height |-> height,
     pixels |-> [n \in 1..(width * height * 4) |->
                   Component(a, d, c, ((n - 1) \div 4) % width,
                             ((n - 1) \div 4) \div width, (n - 1) % 4)]]

\* self._frame_paths after a run: key (action_index, direction_index), filled
\* in render order; counts[a + 1][d + 1] frames under (a, d)
RECURSIVE SheetIndexFrom(_, _, _)
SheetIndexFrom(counts, a, d) ==
    IF a >= Len(counts) THEN <<>>
    ELSE IF d >= Len(counts[a + 1]) THEN SheetIndexFrom(counts, a + 1, 0)
    ELSE <<[k |-> <<a, d>>,
            v |-> [c \in 1..counts[a + 1][d + 1] |-> SheetFramePath(a, d, c - 1)]]>>
         \o SheetIndexFrom(counts, a, d + 1)

\* the frame counts per action and direction of the indexes assembled: one
\* action, or a second one of a single frame; a frame list may be empty
SheetCounts ==
    {<<first>> \o second :
        first \in UNION {[1..n -> 0..MaxSheetFrames] : n \in 1..MaxSheetDirections},
        second \in {<<>>, <<<<1>>>>}}

\* the frame widths and heights of a run
FrameSizes == {1, 2, MaxFrameSize}
FrameHeights == {1, MaxFrameSize}

\* what is wrong with one frame file: nothing, the file is gone, or it is of
\* another size than the first frame (the resolution changed during the run)
Defects == {"none", "missing", "smaller", "larger"}

\* <<action index, direction, column>> of the frames a run can render
FrameKeys(counts) ==
    (0..(Len(counts) - 1)) \X (0..(MaxSheetDirections - 1)) \X (0..(MaxSheetFrames - 1))

\* the files a run can write, each with the frame it is rendered for
FrameFiles(counts) ==
    {<<SheetFramePath(key[1], key[2], key[3]), key>> : key \in FrameKeys(counts)}

\* the frame the file at path was rendered for
KeyOf(files, path) == (CHOOSE file \in files : file[1] = path)[2]

\* the image rendered for key: of the size of the run, but for the defect of
\* the frame bad
RenderedImage(key, width, height, defect, bad) ==
    IF key # bad \/ defect = "none"
    THEN FrameImage(key[1], key[2], key[3], width, height)
    ELSE IF defect = "smaller" THEN FrameImage(key[1], key[2], key[3], 1, 1)
    ELSE FrameImage(key[1], key[2], key[3], width + 1, height + 1)

\* the frame files on disk, with the defect of the frame at column c of
\* direction d of action 0
SheetImages(files, width, height, defect, d, c) ==
    [path \in {file[1] : file \in files}
              \ (IF defect = "missing" THEN {SheetFramePath(0, d, c)} ELSE {}) |->
        RenderedImage(KeyOf(files, path), width, height, defect, <<0, d, c>>)]

SheetInit ==
    /\ IdleBatch
    /\ bpy_data = NoData
    /\ plan_armatures = <<>>
    /\ \E counts \in SheetCounts, width \in FrameSizes, height \in FrameHeights,
          defect \in Defects :
          \E bad \in {<<0, 0>>, <<Len(counts[1]) - 1, counts[1][Len(counts[1])] - 1>>} :
              calc = [call |-> "none",
                      n_actions |-> Len(counts),
                      frame_paths |-> SheetIndexFrom(counts, 0, 0),
                      images |-> SheetImages(FrameFiles(counts), width, height, defect,
                                             bad[1], bad[2]),
                      uniform |-> (defect = "none")]

\* _assemble_spritesheets composes the sheets
Assemble ==
    /\ calc.call = "none"
    /\ calc' = [call |-> "_assemble_spritesheets",
                n_actions |-> calc.n_actions,
                frame_paths |-> calc.frame_paths,
                images |-> calc.images,
                uniform |-> calc.uniform,
                ret |-> compose_sheets(calc.images, calc.n_actions, calc.frame_paths)]
    /\ UNCHANGED <<plan_armatures, bpy_data, batch_vars>>

SheetNext == Assemble

SpecSheet == SheetInit /\ [][SheetNext]_vars

(***************************************************************************)
(* Sheet dimensions and pixel placement.                                   *)
(***************************************************************************)
\* the index entries of action index a that hold frames
GroupOf(frame_paths, a) == {e \in SeqSet(frame_paths) : e.k[1] = a /\ e.v # <<>>}

\* the directions recorded for action index a
GroupDirections(frame_paths, a) == {e.k[2] : e \in GroupOf(frame_paths, a)}

\* the largest number of frames recorded under one direction of action index a
GroupColumns(frame_paths, a) ==
    CHOOSE m \in {Len(e.v) : e \in GroupOf(frame_paths, a)} :
        \A e \in GroupOf(frame_paths, a) : Len(e.v) <= m

\* the frame recorded first under direction d of action index a
FirstFrame(frame_paths, images, a, d) ==
    images[(CHOOSE e \in GroupOf(frame_paths, a) : e.k[2] = d).v[1]]

\* the lowest direction recorded for action index a
FirstDirection(frame_paths, a) ==
    CHOOSE d \in GroupDirections(frame_paths, a) :
        \A e \in GroupDirections(frame_paths, a) : d <= e

\* the run of the example: n_dirs directions of n_frames frames, all of
\* width x height pixels
ExampleRun(n_dirs, n_frames, width, height) ==
    /\ calc.call = "_assemble_spritesheets"
    /\ calc.uniform
    /\ GroupDirections(calc.frame_paths, 0) = 0..(n_dirs - 1)
    /\ \A e \in GroupOf(calc.frame_paths, 0) : Len(e.v) = n_frames
    /\ FirstFrame(calc.frame_paths, calc.images, 0, 0).width = width
    /\ FirstFrame(calc.frame_paths, calc.images, 0, 0).height = height

\* the sheet of action index 0, when there is one
Sheet0 == CHOOSE s \in SeqSet(calc.ret) : s.action_index = 0

\* C18: a sheet has as many columns as the longest frame list of its action
\* group and as many rows as the group has directions; its width is the frame
\* width times the columns, its height the frame height times the rows, the
\* frame size being that of the first frame of the lowest direction.  Two
\* directions of three 4x4 frames give a sheet 12 wide and 8 high.
C18_SheetDimensions ==
    calc.call = "_assemble_spritesheets" =>
        /\ \A s \in SeqSet(calc.ret) :
              /\ s.cols = GroupColumns(calc.frame_paths, s.action_index)
              /\ s.rows = Cardinality(GroupDirections(calc.frame_paths, s.action_index))
              /\ s.width = s.cols * FirstFrame(calc.frame_paths, calc.images, s.action_index,
                               FirstDirection(calc.frame_paths, s.action_index)).width
              /\ s.height = s.rows * FirstFrame(calc.frame_paths, calc.images, s.action_index,
                                FirstDirection(calc.frame_paths, s.action_index)).height
              /\ Len(s.pixels) = s.width * s.height * 4 \/ ~calc.uniform
        /\ ExampleRun(2, 3, 4, 4) =>
              /\ \E s \in SeqSet(calc.ret) : s.action_index = 0
              /\ Sheet0.width = 12
              /\ Sheet0.height = 8

\* the example is assembled, next to the sheet of a second action
C18_Witness ==
    /\ ExampleRun(2, 3, 4, 4)
    /\ Sheet0.width = 12 /\ Sheet0.height = 8
    /\ Len(calc.ret) = 2

\* the ascending rank of direction d among the directions of action index a
Rank(frame_paths, a, d) ==
    Cardinality({e \in GroupDirections(frame_paths, a) : e < d})

\* the component of channel ch of the pixel at (x, y) of an image or a sheet
\* buffer that is width pixels wide
PixelAt(pixels, width, x, y, ch) == pixels[(y * width + x) * 4 + ch + 1]

\* the frame image img sits in sheet s with its lower left corner at the
\* buffer position (c * frame_w, band * frame_h)
FrameStoredAt(s, img, c, band) ==
    \A x \in 0..(s.frame_w - 1), y \in 0..(s.frame_h - 1), ch \in 0..3 :
        PixelAt(s.pixels, s.width, c * s.frame_w + x, band * s.frame_h + y, ch)
            = PixelAt(img.pixels, s.frame_w, x, y, ch)

\* the frame files of action index a that load, as <<direction, column, image>>
LoadedFrames(frame_paths, images, a) ==
    UNION {{<<e.k[2], c - 1, images[e.v[c]]>> :
               c \in {n \in DOMAIN e.v : e.v[n] \in DOMAIN images}} :
           e \in GroupOf(frame_paths, a)}

\* the sheet buffer has the size of the sheet image, so that it is accepted as
\* the pixels of the image
Composed(s) == Len(s.pixels) = s.width * s.height * 4

BandHolds(s, band, d) ==
    \A X \in 0..(s.width - 1), Y \in (band * s.frame_h)..((band + 1) * s.frame_h - 1),
       ch \in 0..3 :
        PixelAt(s.pixels, s.width, X, Y, ch)
            = Component(0, d, X \div s.frame_w, X % s.frame_w, Y % s.frame_h, ch)

\* C20 as stated: in a sheet composed from 2 directions of 3 frames each, all
\* frames 4x4, the frames of direction 0 occupy the bottom band (buffer rows
\* 0..3) and those of direction 1 the top band (buffer rows 4..7).
C20_Direction0InBottomBand ==
    ExampleRun(2, 3, 4, 4) =>
        /\ \E s \in SeqSet(calc.ret) : s.action_index = 0
        /\ BandHolds(Sheet0, 0, 0)
        /\ BandHolds(Sheet0, 1, 1)

\* C20: in a sheet composed from 2 directions of equally many frames of one
\* size (3 frames of 4x4 pixels among them), the frames of direction 0 occupy
\* the top band (the buffer rows frame_height..2 * frame_height - 1) and those
\* of direction 1 the bottom band (the buffer rows 0..frame_height - 1), the
\* image origin being bottom-left.
C20_Direction0InTopBand ==
    \A n \in 1..MaxSheetFrames, width \in FrameSizes, height \in FrameHeights :
        ExampleRun(2, n, width, height) =>
            /\ \E s \in SeqSet(calc.ret) : s.action_index = 0
            /\ Sheet0.rows = 2 /\ Sheet0.frame_h = height
            /\ BandHolds(Sheet0, 1, 0)
            /\ BandHolds(Sheet0, 0, 1)

\* the sheet of the example: buffer row 0 starts with direction 1, buffer row 4
\* with direction 0
C20_Witness ==
    /\ ExampleRun(2, 3, 4, 4)
    /\ Composed(Sheet0)
    /\ PixelAt(Sheet0.pixels, 12, 0, 0, 0)
          = Component(0, 1, 0, 0, 0, 0)
    /\ PixelAt(Sheet0.pixels, 12, 0, 4, 0)
          = Component(0, 0, 0, 0, 0, 0)
    /\ PixelAt(Sheet0.pixels, 12, 11, 7, 3)
          = Component(0, 0, 2, 3, 3, 3)

(***************************************************************************)
(* The rendered-frame index of a batch.                                    *)
(***************************************************************************)
\* the keys a plan gives rise to: (entry index from 0, direction)
PlanKeys(plan) == (0..(Len(plan.actions) - 1)) \X (0..(plan.directions - 1))

\* the output paths of the frames of an entry under direction d, in the order
\* of the frame range
EntryPaths(output_dir, entry, d) ==
    [k \in 1..FrameCount(entry) |->
        PathJoin(output_dir,
                 FrameFileName(entry.armature_obj, entry.action, d,
                               ExpectedFrames(entry.frame_range)[k]))]

\* instance i has no unit left to render and has not yet been told so
PlanExhausted(i) ==
    /\ phase[i] = "Running"
    /\ ~next_frame(op[i]).found

\* C21: when the plan is exhausted, before the assembler runs, the index has
\* one key (a, d) for every entry index a and every direction d below the
\* direction count and no other key, each key once, and under (a, d) the
\* output paths of the frames of entry a in the order of its frame range,
\* frame_count(entry a) of them.
C21_IndexWhenExhausted ==
    \A i \in Ops :
        PlanExhausted(i) =>
            /\ DictKeys(op[i].frame_paths) = PlanKeys(op[i].plan)
            /\ Len(op[i].frame_paths) = Cardinality(PlanKeys(op[i].plan))
            /\ \A key \in PlanKeys(op[i].plan) :
                  /\ DictGet(op[i].frame_paths, key)
                        = EntryPaths(op[i].output_dir,
                                     op[i].plan.actions[key[1] + 1], key[2])
                  /\ Len(DictGet(op[i].frame_paths, key))
                        = FrameCount(op[i].plan.actions[key[1] + 1])

\* an exhausted plan of entries with 2 and 1 frames and 2 directions: the keys
\* (0,0), (0,1), (1,0), (1,1) hold 2, 2, 1, 1 paths
C21_Witness ==
    \E i \in Ops :
        /\ PlanExhausted(i)
        /\ Len(op[i].plan.actions) = 2 /\ op[i].plan.directions = 2
        /\ DictKeys(op[i].frame_paths) = {<<0, 0>>, <<0, 1>>, <<1, 0>>, <<1, 1>>}
        /\ Len(DictGet(op[i].frame_paths, <<0, 0>>)) = 2
        /\ Len(DictGet(op[i].frame_paths, <<0, 1>>)) = 2
        /\ Len(DictGet(op[i].frame_paths, <<1, 0>>)) = 1
        /\ Len(DictGet(op[i].frame_paths, <<1, 1>>)) = 1

(***************************************************************************)
(* A batch started from a planning state that gives no plan entry.         *)
(***************************************************************************)
\* the planning state and the settings give a plan without entries
NothingPlanned ==
    from_scene(plan_armatures, settings.directions, settings.frame_step).actions = <<>>

\* instance i is started in this step
Starts(i) == phase[i] = "Unborn" /\ phase'[i] # "Unborn"

\* C22: a batch whose plan has no entries does not enter Running: it ends at
\* once with the result CANCELLED (no exception), no timer is registered, no
\* directory is created, frame, output path and active actions stay as they
\* are, nothing is rendered, and the instance stays idle afterwards.
C22_EmptyPlanIsNoOp ==
    [][\A i \in Ops :
          /\ (Starts(i) /\ NothingPlanned) =>
                /\ phase'[i] = "Idle"
                /\ wm_timers' = wm_timers
                /\ ~op'[i].timer
                /\ disk' = disk
                /\ scene' = scene
                /\ anim' = anim
                /\ hist'[i].renders = <<>>
          /\ (Starts(i) /\ ~NothingPlanned) => phase'[i] = "Running"
          /\ phase[i] = "Idle" =>
                /\ phase'[i] = "Idle"
                /\ hist'[i].renders = <<>>
                /\ i \notin wm_timers']_vars

\* the first batch found nothing to do: no directory, no timer, no render
C22_Witness ==
    /\ phase[1] = "Idle"
    /\ NothingPlanned
    /\ disk.dirs = {}
    /\ wm_timers = {}
    /\ hist[1].renders = <<>>
    /\ scene = [frame_current |-> 0, filepath |-> <<"/tmp/", <<>>>>]

(***************************************************************************)
(* A batch with the planning state and the settings edited while it runs.  *)
(***************************************************************************)
\* SGG_OT_toggle_all_armatures.execute
toggle_all_armatures(plan, enable) ==
    [k \in DOMAIN plan |->
        [plan[k] EXCEPT
           !.enabled = enable,
           !.actions = [j \in DOMAIN plan[k].actions |->
                          [plan[k].actions[j] EXCEPT !.enabled = enable]]]]

\* a variant of sgg.toggle_armature_actions that also writes the row's own
\* checkbox
toggle_armature_actions_and_row(plan, armature_index, enable) ==
    IF armature_index < 0 \/ armature_index >= Len(plan) THEN plan
    ELSE [plan EXCEPT
            ![armature_index + 1].enabled = enable,
            ![armature_index + 1].actions =
                [j \in DOMAIN @ |-> [@[j] EXCEPT !.enabled = enable]]]

\* SGG_OT_toggle_armature_actions.execute; the result is the planning state,
\* unchanged when the operator returns {'CANCELLED'}
toggle_armature_actions(plan, armature_index, enable) ==
    IF armature_index < 0 \/ armature_index >= Len(plan) THEN plan
    ELSE [plan EXCEPT
            ![armature_index + 1].actions =
                [j \in DOMAIN @ |-> [@[j] EXCEPT !.enabled = enable]]]

\* the scene as the synchronizer finds it: the collection and its objects,
\* and the armatures' animation data as the batch has left them
SceneNow ==
    [bpy_data EXCEPT
       !.ad = [a \in Armatures |->
                 [has_ad |-> anim[a].has_ad, action |-> anim[a].action,
                  strips |-> <<>>]]]

SnapshotInit ==
    /\ plan_armatures =
          <<ArmaturePlanItem("Arm1", TRUE,
               <<ActionPlanItem("Walk", TRUE, 1, MaxFrame),
                 ActionPlanItem("Run", FALSE, MaxFrame, MaxFrame)>>),
            ArmaturePlanItem("Arm2", TRUE,
               <<ActionPlanItem("Walk", TRUE, 1, 1)>>)>>
    /\ settings \in [directions : 1..MaxDirections,
                     frame_step : 1..MaxStep,
                     output_dir : {"//spritesheets/"},
                     delete_frame_pngs : {FALSE},
                     last_frame_render_seconds : {0},
                     batch_running : {FALSE},
                     batch_cancel_requested : {FALSE},
                     batch_total_frames : {0},
                     batch_processed_frames : {0}]
    /\ scene = [frame_current |-> 0, filepath |-> <<"/tmp/", <<>>>>]
    /\ anim = [a \in Armatures |->
                 IF a = "Arm1" THEN [has_ad |-> TRUE, action |-> "Run"]
                 ELSE [has_ad |-> FALSE, action |-> None]]
    /\ wm_timers = {}
    /\ disk = [dirs |-> {}, files |-> {}]
    /\ op = [i \in Ops |-> NewOperator]
    /\ phase = [i \in Ops |-> "Unborn"]
    /\ hist = [i \in Ops |-> NewHistory]
    /\ bpy_data = [collection |-> "Coll", objects |-> <<"Arm2", "Arm1">>,
                   live |-> Objects \cup Actions,
                   ad |-> [a \in Armatures |-> NoAnimationData]]
    /\ calc = [call |-> "none", edits |-> 0,
               planned |-> plan_armatures,
               directions |-> settings.directions,
               frame_step |-> settings.frame_step]

\* while the batch runs, the planning state becomes plan and the settings s
EditWhileRunning(call, plan, s) ==
    /\ phase[1] = "Running"
    /\ calc.edits < MaxEdits
    /\ plan_armatures' = plan
    /\ settings' = s
    /\ calc' = [calc EXCEPT !.call = call, !.edits = @ + 1]
    /\ UNCHANGED <<scene, anim, wm_timers, disk, op, phase, hist, bpy_data>>

\* the buttons of the dialog that run sgg.toggle_all_armatures
ToggleAllArmatures(enable) ==
    /\ plan_armatures # <<>>
    /\ EditWhileRunning("toggle_all_armatures",
                        toggle_all_armatures(plan_armatures, enable), settings)

\* the buttons of an armature row that run sgg.toggle_armature_actions
ToggleArmatureActions(armature_index, enable) ==
    /\ armature_index < Len(plan_armatures)
    /\ EditWhileRunning("toggle_armature_actions",
                        toggle_armature_actions(plan_armatures, armature_index, enable),
                        settings)

\* the checkbox of an armature row
ToggleArmature(k) ==
    /\ k \in DOMAIN plan_armatures
    /\ EditWhileRunning("edit", [plan_armatures EXCEPT ![k].enabled = ~@], settings)

\* the checkbox of an action row
ToggleAction(k, j) ==
    /\ k \in DOMAIN plan_armatures
    /\ j \in DOMAIN plan_armatures[k].actions
    /\ EditWhileRunning("edit",
                        [plan_armatures EXCEPT ![k].actions[j].enabled = ~@], settings)

\* the frame fields of an action row
ChangeFrames(k, j) ==
    /\ k \in DOMAIN plan_armatures
    /\ j \in DOMAIN plan_armatures[k].actions
    /\ \E frame \in 0..(MaxFrame + 1) :
          \/ EditWhileRunning("edit",
                [plan_armatures EXCEPT ![k].actions[j].frame_start = frame], settings)
          \/ EditWhileRunning("edit",
                [plan_armatures EXCEPT ![k].actions[j].frame_end = frame], settings)

\* the directions and frame step fields of the panel
ChangeSettings ==
    \/ \E n \in 1..(MaxDirections + 1) :
          /\ n # settings.directions
          /\ EditWhileRunning("edit", plan_armatures, [settings EXCEPT !.directions = n])
    \/ \E n \in 1..(MaxStep + 1) :
          /\ n # settings.frame_step
          /\ EditWhileRunning("edit", plan_armatures, [settings EXCEPT !.frame_step = n])

\* SGG_OT_plan_and_run.invoke while the batch runs: _build_plan runs
Resync ==
    /\ bpy_data.collection # None
    /\ EditWhileRunning("_build_plan", build_plan(plan_armatures, SceneNow), settings)

SnapshotNext ==
    \/ Execute(1)
    \/ TimerEvent(1)
    \/ EscEvent(1)
    \/ \E enable \in BOOLEAN : ToggleAllArmatures(enable)
    \/ \E k \in 0..(Cardinality(Armatures) - 1), enable \in BOOLEAN :
          ToggleArmatureActions(k, enable)
    \/ \E k \in 1..Cardinality(Armatures) : ToggleArmature(k)
    \/ \E k \in 1..Cardinality(Armatures), j \in 1..Cardinality(Actions) :
          ToggleAction(k, j)
    \/ \E k \in 1..Cardinality(Armatures), j \in 1..Cardinality(Actions) :
          ChangeFrames(k, j)
    \/ ChangeSettings
    \/ Resync

SpecSnapshot == SnapshotInit /\ [][SnapshotNext]_vars

\* the plan of the planning state and the settings the batch was started from
PlanAtStart == from_scene(calc.planned, calc.directions, calc.frame_step)

\* the plan the planning state and the settings would give now
PlanNow == from_scene(plan_armatures, settings.directions, settings.frame_step)

\* C23: whatever is edited after the start (enabled flags, frame ranges,
\* direction count, frame step, a run of the synchronizer), the batch keeps
\* the plan it was started with and renders the units of that plan, in their
\* order, all of them when it completes.
C23_PlanIsSnapshot ==
    /\ phase[1] = "Running" => op[1].plan = PlanAtStart
    /\ phase[1] # "Unborn" =>
          InOrder(RenderedUnits(hist[1]), PlanUnits(PlanAtStart, 1),
                  phase[1] = "Completed")

\* a batch has completed with all units of its plan rendered although, while
\* it ran, an edit made the planning state give another plan
C23_Witness ==
    /\ phase[1] = "Completed"
    /\ calc.edits > 0
    /\ PlanNow # PlanAtStart
    /\ PlanUnits(PlanNow, 1) # PlanUnits(PlanAtStart, 1)
    /\ Len(RenderedUnits(hist[1])) = TotalUnits(PlanAtStart)
    /\ Len(RenderedUnits(hist[1])) > 1

(***************************************************************************)
(* Frame files that do not load.                                           *)
(***************************************************************************)
\* the action indexes with recorded frames
RecordedActions(frame_paths) == {e.k[1] : e \in {x \in SeqSet(frame_paths) : x.v # <<>>}}

\* the recorded frames of action index a whose file does not load, as
\* <<direction, column>>
UnloadedFrames(frame_paths, images, a) ==
    UNION {{<<e.k[2], c - 1>> : c \in {n \in DOMAIN e.v : e.v[n] \notin DOMAIN images}} :
           e \in GroupOf(frame_paths, a)}

\* the cell of column c of band number band of sheet s is fully transparent
CellTransparent(s, c, band) ==
    \A x \in 0..(s.frame_w - 1), y \in 0..(s.frame_h - 1), ch \in 0..3 :
        PixelAt(s.pixels, s.width, c * s.frame_w + x, band * s.frame_h + y, ch) = 0

\* the sheet of action index a is there; the frames that loaded are in their
\* cells and the cells of those that did not are transparent
SheetWithout(ret, frame_paths, images, a) ==
    \E s \in SeqSet(ret) :
        /\ s.action_index = a
        /\ Composed(s)
        /\ \A f \in LoadedFrames(frame_paths, images, a) :
              FrameStoredAt(s, f[3], f[2], s.rows - 1 - Rank(frame_paths, a, f[1]))
        /\ \A f \in UnloadedFrames(frame_paths, images, a) :
              CellTransparent(s, f[2], s.rows - 1 - Rank(frame_paths, a, f[1]))

\* no frame file is of another size than the others
OneSize(images) ==
    \A p, q \in DOMAIN images :
        images[p].width = images[q].width /\ images[p].height = images[q].height

\* C24: when a recorded frame image does not load, be it the first frame of
\* the first direction, only that frame is skipped: the sheet of its action is
\* composed with the other frames and a transparent cell, and so are the
\* sheets of the other actions.
C24_OnlyTheFrameIsSkipped ==
    (calc.call = "_assemble_spritesheets" /\ OneSize(calc.images)) =>
        \A a \in RecordedActions(calc.frame_paths) :
            SheetWithout(calc.ret, calc.frame_paths, calc.images, a)

(***************************************************************************)
(* Directions without recorded frames.                                     *)
(***************************************************************************)
\* the directions action index a has a key for, with frames or without
KeyedDirections(frame_paths, a) == {e.k[2] : e \in {x \in SeqSet(frame_paths) : x.k[1] = a}}

RecordedFor(self, a) ==
    UNION {SeqSet(e.v) : e \in {x \in SeqSet(self.frame_paths) : x.k[1] = a}}

\* instance i completes in this step: its last tick runs the assembler
Completes(i) == phase[i] = "Running" /\ phase'[i] = "Completed"

\* the assembly of this step has written the sheet of action index a
SheetWritten(i, a) == \E sheet \in SeqSet(hist'[i].sheets) : sheet.action_index = a

\* the file at path is removed in this step
Removed(path) == path \in disk.files /\ path \notin disk'.files

\* C26: a frame file recorded for an action is removed if and only if
\* delete_frame_pngs is set and the sheet of that action has been written in
\* the same assembly; no file is removed by a cancelled run, with the option
\* off, or for an action whose sheet was skipped.
C26_FramesDeletedWithSheet ==
    [][/\ \A path \in disk.files : Removed(path) => \E i \in Ops : Completes(i)
       /\ \A i \in Ops :
             Completes(i) =>
                \A a \in 0..(Len(op[i].plan.actions) - 1) :
                    \A path \in RecordedFor(op[i], a) :
                        /\ Removed(path) =>
                              settings.delete_frame_pngs /\ SheetWritten(i, a)
                        /\ (settings.delete_frame_pngs /\ SheetWritten(i, a)) =>
                              path \notin disk'.files]_vars

(***************************************************************************)
(* When the assembler runs.                                                *)
(***************************************************************************)
\* C27: in a batch run the assembler runs at most once (once in a run that
\* completes, never otherwise), after every unit of the plan has been
\* rendered; it runs while the instance still has its plan and its index, and
\* leaves the index, like every other attribute of the instance, as it was.
C27_AssemblerRunsOnce ==
    \A i \in Ops :
        /\ hist[i].assembled <= 1
        /\ hist[i].assembled = 1 <=> phase[i] = "Completed"
        /\ phase[i] = "Completed" =>
              Len(RenderedUnits(hist[i])) = TotalUnits(hist[i].plan)
        /\ PlanExhausted(i) =>
              /\ op[i].frame_paths # <<>>
              /\ assemble_spritesheets(World(i)).self = op[i]
              /\ assemble_spritesheets(World(i)).hist.assembled = 1

\* a batch has completed: the assembler ran once and wrote two sheets
C27_Witness ==
    \E i \in Ops :
        /\ phase[i] = "Completed"
        /\ hist[i].assembled = 1
        /\ Len(hist[i].sheets) = 2
        /\ op[i].frame_paths = <<>>

(***************************************************************************)
(* File names.                                                             *)
(***************************************************************************)
RECURSIVE Power10(_)
Power10(n) == IF n = 0 THEN 1 ELSE 10 * Power10(n - 1)

\* the number n, 0 <= n < 10^width, written with width digits
Padded(n, width) ==
    [k \in 1..width |-> DigitChars[((n \div Power10(width - k)) % 10) + 1]]

\* a name with every space replaced by an underscore
Underscored(name) == [k \in 1..Len(name) |-> IF name[k] = " " THEN "_" ELSE name[k]]

\* {subject_name}_{clip_name}_dir{direction:2 digits}_frame{frame:4 digits}.png
ExpectedFrameName(subject, clip, direction, frame) ==
    Underscored(subject) \o <<"_">> \o Underscored(clip) \o <<"_", "d", "i", "r">>
    \o Padded(direction, 2) \o <<"_", "f", "r", "a", "m", "e">> \o Padded(frame, 4)
    \o <<".", "p", "n", "g">>

\* {subject_name}_{clip_name}_sheet.png
ExpectedSheetName(subject, clip) ==
    Underscored(subject) \o <<"_">> \o Underscored(clip)
    \o <<"_", "s", "h", "e", "e", "t", ".", "p", "n", "g">>

\* direction indexes and frame numbers of one to four digits
SampleDirections == {0, 9, 10, 63}
SampleFrames == {0, 9, 10, 250, 9999}

\* C28: the file of a render unit is {subject_name}_{clip_name}_dir{direction
\* in 2 digits}_frame{frame number in 4 digits}.png and the sheet of an entry
\* {subject_name}_{clip_name}_sheet.png, spaces in both names replaced by
\* underscores, both directly under the output directory (frame numbers and
\* directions from 0 on).  The two name functions are compared on the sample
\* numbers once, before the batch is started.
C28_FileNames ==
    /\ \A i \in Ops :
          /\ \A e \in SeqSet(op[i].frame_paths) :
                \A k \in DOMAIN e.v :
                    e.v[k] = <<AbsPath(settings.output_dir),
                               ExpectedFrameName(
                                   ObjName(op[i].plan.actions[e.k[1] + 1].armature_obj),
                                   ActionName(op[i].plan.actions[e.k[1] + 1].action),
                                   e.k[2],
                                   ExpectedFrames(
                                       op[i].plan.actions[e.k[1] + 1].frame_range)[k])>>
          /\ \A sheet \in SeqSet(hist[i].sheets) :
                sheet.path = <<AbsPath(settings.output_dir),
                               ExpectedSheetName(
                                   ObjName(hist[i].plan.actions[sheet.action_index + 1]
                                               .armature_obj),
                                   ActionName(hist[i].plan.actions[sheet.action_index + 1]
                                                  .action))>>
    /\ \A path \in disk.files : path[1] = AbsPath(settings.output_dir)
    /\ phase[1] = "Unborn" =>
          \A arm \in Armatures, act \in Actions :
              /\ SheetFileName(arm, act)
                    = ExpectedSheetName(ObjName(arm), ActionName(act))
              /\ \A d \in SampleDirections, f \in SampleFrames :
                    FrameFileName(arm, act, d, f)
                        = ExpectedFrameName(ObjName(arm), ActionName(act), d, f)

\* a frame of armature "a b" is on disk as a_b_w_dir01_frame0002.png next to
\* the sheet a_b_w_sheet.png
C28_Witness ==
    /\ <<"/project/spritesheets/",
         <<"a", "_", "b", "_", "w", "_", "d", "i", "r", "0", "1", "_",
           "f", "r", "a", "m", "e", "0", "0", "0", "2", ".", "p", "n", "g">>>>
          \in disk.files
    /\ <<"/project/spritesheets/",
         <<"a", "_", "b", "_", "w", "_", "s", "h", "e", "e", "t", ".", "p", "n", "g">>>>
          \in disk.files
    /\ phase[1] = "Completed"
    /\ hist[1].plan.actions[1].armature_obj = "Arm1"

(***************************************************************************)
(* Events handed to an instance whose batch has ended.                     *)
(***************************************************************************)
\* the number of events handed to ended instances in one behaviour
MaxLateEvents == 2

Ended == {"Completed", "Cancelled"}

\* Blender with a planning state of one or two entries and no batch started
LateInit ==
    /\ plan_armatures \in
          {<<ArmaturePlanItem("Arm1", TRUE,
                <<ActionPlanItem("Walk", TRUE, 1, MaxFrame),
                  ActionPlanItem("Run", FALSE, 1, 1)>>),
             ArmaturePlanItem("Arm2", second_enabled,
                <<ActionPlanItem("Walk", TRUE, 1, 1)>>)>> :
              second_enabled \in BOOLEAN}
    /\ settings \in [directions : 1..MaxDirections,
                     frame_step : {MaxStep},
                     output_dir : {"//spritesheets/"},
                     delete_frame_pngs : {FALSE},
                     last_frame_render_seconds : {0},
                     batch_running : {FALSE},
                     batch_cancel_requested : {FALSE},
                     batch_total_frames : {0},
                     batch_processed_frames : {0}]
    /\ scene = [frame_current |-> 0, filepath |-> <<"/tmp/", <<>>>>]
    /\ anim = [a \in Armatures |->
                 IF a = "Arm1" THEN [has_ad |-> TRUE, action |-> "Run"]
                 ELSE [has_ad |-> FALSE, action |-> None]]
    /\ wm_timers = {}
    /\ disk = [dirs |-> {}, files |-> {}]
    /\ op = [i \in Ops |-> NewOperator]
    /\ phase = [i \in Ops |-> "Unborn"]
    /\ hist = [i \in Ops |-> NewHistory]
    /\ bpy_data = NoData
    /\ calc = [call |-> "modal", late |-> 0, to |-> 0, event |-> "NONE",
               ret |-> "NONE"]

\* modal(context, event) is called on an instance that has returned FINISHED or
\* CANCELLED before
LateEvent(i, event_type, w) ==
    /\ plan_armatures' = w.plan_armatures
    /\ settings' = w.settings
    /\ scene' = w.scene
    /\ anim' = w.anim
    /\ wm_timers' = w.wm_timers
    /\ disk' = w.disk
    /\ op' = [op EXCEPT ![i] = w.self]
    /\ hist' = [hist EXCEPT ![i] = w.hist]
    /\ calc' = [calc EXCEPT !.late = @ + 1, !.to = i, !.event = event_type,
                              !.ret = w.ret]
    /\ UNCHANGED <<phase, bpy_data>>

LateTimerEvent(i) ==
    /\ phase[i] \in Ended
    /\ calc.late < MaxLateEvents
    /\ LateEvent(i, "TIMER", modal(World(i), "TIMER", TRUE, 1))

LateEscEvent(i) ==
    /\ phase[i] \in Ended
    /\ calc.late < MaxLateEvents
    /\ LateEvent(i, "ESC", modal(World(i), "ESC", TRUE, 1))

LateOtherEvent(i) ==
    /\ phase[i] \in Ended
    /\ calc.late < MaxLateEvents
    /\ LateEvent(i, "MOUSEMOVE", modal(World(i), "MOUSEMOVE", TRUE, 1))

LateNext ==
    \/ \E i \in Ops : Execute(i)
    \/ \E i \in Ops : TimerEvent(i)
    \/ \E i \in Ops : EscEvent(i)
    \/ \E i \in Ops : LateTimerEvent(i)
    \/ \E i \in Ops : LateEscEvent(i)
    \/ \E i \in Ops : LateOtherEvent(i)

SpecLate == LateInit /\ [][LateNext]_vars

\* this step hands an event to the ended instance i
Late(i) ==
    /\ phase[i] \in Ended
    /\ calc'.late = calc.late + 1
    /\ calc'.to = i

\* an ended instance holds no timer, no plan and no index
Discarded(i) ==
    /\ ~op[i].timer
    /\ i \notin wm_timers
    /\ op[i].plan = NoPlan
    /\ op[i].frame_iter = NoIter
    /\ op[i].frame_paths = <<>>

\* C29: an instance that has completed or was cancelled holds no timer, no
\* plan and no index, and an event handed to it afterwards renders nothing
\* and changes no host state (frame, output path, active actions, settings,
\* timers, planning state, files).
C29_EndedInstanceIsInert ==
    [][\A i \in Ops :
          /\ phase'[i] \in Ended => Discarded(i)'
          /\ Late(i) =>
                /\ hist'[i].renders = hist[i].renders
                /\ UNCHANGED <<scene, anim, settings, wm_timers, disk,
                               plan_armatures>>]_vars

(***************************************************************************)
(* Plans built from any direction count and frame step.                    *)
(***************************************************************************)
\* C30: whatever integers are passed as direction count and frame step, zero
\* and negative ones included, the plan built has directions >= 1 and every
\* entry has step >= 1 and end >= start, so that its frames() is not empty.
C30_PlanYieldsFrames ==
    calc.call = "from_scene" =>
        /\ calc.ret.directions >= 1
        /\ calc.ret.directions = Max(1, calc.directions)
        /\ \A entry \in SeqSet(calc.ret.actions) :
              /\ entry.frame_range.step >= 1
              /\ entry.frame_range.step = Max(1, calc.frame_step)
              /\ entry.frame_range.end >= entry.frame_range.start
              /\ frames(entry.frame_range) # <<>>
              /\ frames(entry.frame_range)[1] = entry.frame_range.start

\* a plan of three entries built with a negative direction count and a
\* negative frame step
C30_Witness ==
    /\ calc.call = "from_scene"
    /\ calc.directions < 0
    /\ calc.frame_step < 0
    /\ Len(calc.ret.actions) = 3
    /\ \E entry \in SeqSet(calc.ret.actions) :
          entry.frame_range.end > entry.frame_range.start

(***************************************************************************)
(* A batch whose timer keeps ticking, whose render calls all return and    *)
(* that nobody cancels.                                                    *)
(***************************************************************************)
\* Blender with a planning state left by the planning dialog and no batch
\* started; calc holds the last TIMER event handed to an instance
LiveInit ==
    /\ plan_armatures \in PlanningStates
    /\ settings \in [directions : 1..MaxDirections,
                     frame_step : 1..MaxStep,
                     output_dir : {"//spritesheets/"},
                     delete_frame_pngs : BOOLEAN,
                     last_frame_render_seconds : {0},
                     batch_running : {FALSE},
                     batch_cancel_requested : {FALSE},
                     batch_total_frames : {0},
                     batch_processed_frames : {0}]
    /\ scene = [frame_current |-> 0, filepath |-> <<"/tmp/", <<>>>>]
    /\ anim = [a \in Armatures |->
                 IF a = "Arm1" THEN [has_ad |-> TRUE, action |-> "Run"]
                 ELSE [has_ad |-> FALSE, action |-> None]]
    /\ wm_timers = {}
    /\ disk = [dirs |-> {}, files |-> {}]
    /\ op = [i \in Ops |-> NewOperator]
    /\ phase = [i \in Ops |-> "Unborn"]
    /\ hist = [i \in Ops |-> NewHistory]
    /\ bpy_data = NoData
    /\ calc = [call |-> "modal", to |-> 0, n |-> 0]

\* the state after modal, called with a TIMER event, left world w
TimerDelivered(i, w) ==
    /\ plan_armatures' = w.plan_armatures
    /\ settings' = w.settings
    /\ scene' = w.scene
    /\ anim' = w.anim
    /\ wm_timers' = w.wm_timers
    /\ disk' = w.disk
    /\ op' = [op EXCEPT ![i] = w.self]
    /\ phase' = [phase EXCEPT ![i] = PhaseAfter(w.ret)]
    /\ hist' = [hist EXCEPT ![i] = [w.hist EXCEPT !.ticks = @ + 1]]
    /\ calc' = [call |-> "modal", to |-> i, n |-> 1 - calc.n]
    /\ UNCHANGED bpy_data

\* a TIMER event whose render call, if one is made, returns
LiveTimerEvent(i) ==
    /\ phase[i] = "Running"
    /\ TimerDelivered(i, modal(World(i), "TIMER", TRUE, 1))

LiveNext ==
    \/ \E i \in Ops : Execute(i)
    \/ \E i \in Ops : LiveTimerEvent(i)

\* the record calc of a TIMER event handed to the running instance i
Ticked(i) ==
    /\ phase[i] = "Running"
    /\ calc' = [call |-> "modal", to |-> i, n |-> 1 - calc.n]

\* wm.event_timer_add(0.0, window): as long as the instance is a modal
\* handler the window manager keeps handing it TIMER events.  A step changes
\* calc as Ticked(i) says exactly when it is LiveTimerEvent(i), which is
\* enabled exactly while instance i is Running.
SpecLive ==
    LiveInit /\ [][LiveNext]_vars /\ \A i \in Ops : WF_calc(Ticked(i))

\* C31: with TIMER events delivered as long as the instance runs, every
\* render call returning and no cancellation, a batch that is Running
\* reaches Completed.
C31_RunningLeadsToCompleted ==
    \A i \in Ops : (phase[i] = "Running") ~> (phase[i] = "Completed")

\* both batches have completed, the first after one tick per unit of a plan
\* of three entries and the tick that found the plan exhausted
C31_Witness ==
    /\ \A i \in Ops : phase[i] = "Completed"
    /\ Len(hist[1].plan.actions) = 3
    /\ hist[1].ticks = TotalUnits(hist[1].plan) + 1
    /\ Len(hist[1].renders) = TotalUnits(hist[1].plan)

(***************************************************************************)
(* Events other than ESC and TIMER.                                        *)
(***************************************************************************)
\* event types that are neither ESC nor TIMER
OtherEventTypes == {"MOUSEMOVE", "LEFTMOUSE", "RET"}

\* modal handed an event of another type in the world w, whether a render
\* would succeed or not, returns PASS_THROUGH and leaves w as it is
PassedThrough(w) ==
    \A event_type \in OtherEventTypes, render_ok \in BOOLEAN :
        modal(w, event_type, render_ok, 1) = [w EXCEPT !.ret = "PASS_THROUGH"]

\* C32: handed an event that is neither ESC nor TIMER, the modal handler of a
\* running batch returns PASS_THROUGH and leaves the instance (plan, action
\* index, direction index, frame iterator, index of rendered frames, timer)
\* and the host state (settings, scene, active actions, timers, files,
\* planning state) as they are, and renders nothing.
C32_OtherEventsPassThrough ==
    \A i \in Ops : phase[i] = "Running" => PassedThrough(World(i))

\* a batch in the middle of a direction, with frames rendered and frames left
C32_Witness ==
    \E i \in Ops :
        /\ phase[i] = "Running"
        /\ op[i].direction_index = 1
        /\ op[i].frame_iter.rest # <<>>
        /\ op[i].frame_paths # <<>>
        /\ scene.frame_current # hist[i].pre.frame

(***************************************************************************)
(* Batches started while a batch runs.                                     *)
(***************************************************************************)
RunningBatches == {i \in Ops : phase[i] = "Running"}

\* the instances are started in the order of Ops: instance 1 is the first batch
FirstBatch == CHOOSE i \in Ops : \A j \in Ops : i <= j

\* C33: at most one batch is Running at any time, and when all batches have
\* ended (Completed or Cancelled) the frame, the output path and the active
\* actions are what they were before the first batch started.
C33_OneBatchAtATime ==
    /\ Cardinality(RunningBatches) <= 1
    /\ (\A i \in Ops : phase[i] \in Ended)
          => Restored(scene, anim, hist[FirstBatch])

(***************************************************************************)
(* The render output path between the ticks of a batch.                    *)
(***************************************************************************)
\* this step is a TIMER event of the running instance i whose render call
\* returned: modal returned RUNNING_MODAL
TickReturned(i) ==
    /\ phase[i] = "Running"
    /\ hist'[i].ticks = hist[i].ticks + 1
    /\ phase'[i] = "Running"

\* C34: after each tick of a running batch whose render call returned, the
\* scene's render output path is what it was before the batch started.
C34_PathRestoredBetweenTicks ==
    [][\A i \in Ops :
          TickReturned(i) => scene'.filepath = hist[i].pre.filepath]_vars

(***************************************************************************)
(* The sheet buffer when frames of another size are copied.                *)
(***************************************************************************)
\* C35: the buffer of every sheet has width * height * 4 components after all
\* frames were copied, whatever their sizes, and a copy writes inside its
\* cell only: the frames of the expected size are in their cells and the
\* cells of the frames that did not load are transparent.
C35_BufferKeepsItsSize ==
    calc.call = "_assemble_spritesheets" =>
        \A s \in SeqSet(calc.ret) :
            /\ Composed(s)
            /\ \A f \in LoadedFrames(calc.frame_paths, calc.images, s.action_index) :
                  (f[3].width = s.frame_w /\ f[3].height = s.frame_h) =>
                      FrameStoredAt(s, f[3], f[2],
                          s.rows - 1 - Rank(calc.frame_paths, s.action_index, f[1]))
            /\ \A f \in UnloadedFrames(calc.frame_paths, calc.images, s.action_index) :
                  CellTransparent(s, f[2],
                      s.rows - 1 - Rank(calc.frame_paths, s.action_index, f[1]))

(***************************************************************************)
(* core.py: estimate_workload, and the batch run from the planning state   *)
(* and the settings it was called with.                                    *)
(***************************************************************************)
\* lines 107-111: the frames counted for one enabled action item
estimate_frame_count(frame_count, frame_step) ==
    IF frame_step > 1 /\ frame_count > 0
    THEN (frame_count + frame_step - 1) \div frame_step
    ELSE frame_count

\* lines 102-112: the loop over arm_item.actions, from index k on
RECURSIVE estimate_actions(_, _, _, _, _)
estimate_actions(act_items, k, directions, frame_step, acc) ==
    IF k > Len(act_items) THEN acc
    ELSE IF ~act_items[k].enabled
    THEN estimate_actions(act_items, k + 1, directions, frame_step, acc)
    ELSE estimate_actions(act_items, k + 1, directions, frame_step,
           [total_frames |->
                acc.total_frames
                + estimate_frame_count(
                      Max(0, act_items[k].frame_end - act_items[k].frame_start + 1),
                      frame_step) * Max(1, directions),
            has_enabled_action |-> TRUE])

\* lines 98-117: the loop over scene.sgg_plan_armatures, from index k on
RECURSIVE estimate_armatures(_, _, _, _, _)
estimate_armatures(arm_items, k, directions, frame_step, acc) ==
    IF k > Len(arm_items) THEN acc
    ELSE IF ~arm_items[k].enabled
    THEN estimate_armatures(arm_items, k + 1, directions, frame_step, acc)
    ELSE estimate_armatures(arm_items, k + 1, directions, frame_step,
           [total_frames |->
                estimate_actions(arm_items[k].actions, 1, directions, frame_step,
                    [total_frames |-> acc.total_frames,
                     has_enabled_action |-> FALSE]).total_frames,
            total_sheets |->
                IF estimate_actions(arm_items[k].actions, 1, directions, frame_step,
                       [total_frames |-> acc.total_frames,
                        has_enabled_action |-> FALSE]).has_enabled_action
                THEN acc.total_sheets + 1
                ELSE acc.total_sheets])

\* estimate_workload(scene, directions, frame_step)
estimate_workload(arm_items, directions, frame_step) ==
    estimate_armatures(arm_items, 1, directions, frame_step,
                       [total_frames |-> 0, total_sheets |-> 0])

\* Blender with a planning state whose items may be disabled, point at a
\* deleted object or action or have a reversed range; nothing estimated and
\* no batch started
EstimateInit ==
    /\ plan_armatures \in BuildStates
    /\ settings \in [directions : 1..MaxDirections,
                     frame_step : 1..MaxStep,
                     output_dir : {"//spritesheets/"},
                     delete_frame_pngs : {FALSE},
                     last_frame_render_seconds : {0},
                     batch_running : {FALSE},
                     batch_cancel_requested : {FALSE},
                     batch_total_frames : {0},
                     batch_processed_frames : {0}]
    /\ scene = [frame_current |-> 0, filepath |-> <<"/tmp/", <<>>>>]
    /\ anim = [a \in Armatures |->
                 IF a = "Arm1" THEN [has_ad |-> TRUE, action |-> "Run"]
                 ELSE [has_ad |-> FALSE, action |-> None]]
    /\ wm_timers = {}
    /\ disk = [dirs |-> {}, files |-> {}]
    /\ op = [i \in Ops |-> NewOperator]
    /\ phase = [i \in Ops |-> "Unborn"]
    /\ hist = [i \in Ops |-> NewHistory]
    /\ bpy_data = NoData
    /\ calc = [call |-> "none"]

\* the planning dialog is drawn: core.estimate_workload(scene,
\* directions=settings.directions, frame_step=settings.frame_step)
EstimateWorkload ==
    /\ calc.call = "none"
    /\ calc' = [call |-> "estimate_workload",
                total_frames |-> estimate_workload(plan_armatures, settings.directions,
                                                   settings.frame_step).total_frames,
                total_sheets |-> estimate_workload(plan_armatures, settings.directions,
                                                   settings.frame_step).total_sheets]
    /\ UNCHANGED <<plan_armatures, bpy_data, batch_vars>>

\* the dialog is confirmed: the batch is started
StartEstimated ==
    /\ calc.call = "estimate_workload"
    /\ Execute(1)

\* a TIMER event of the batch
RunEstimated ==
    /\ calc.call = "estimate_workload"
    /\ TimerEvent(1)

EstimateNext == EstimateWorkload \/ StartEstimated \/ RunEstimated

SpecEstimate == EstimateInit /\ [][EstimateNext]_vars

\* C36: the total_frames of estimate_workload is the number of render calls
\* of the batch run to Completed from the same planning state and settings.
C36_EstimatedFrames ==
    phase[1] = "Completed" => Len(hist[1].renders) = calc.total_frames

\* C37: the total_spritesheets of estimate_workload is the number of sheets
\* the batch run to Completed from the same planning state writes, every
\* frame file loading: one per plan entry.
C37_EstimatedSheets ==
    phase[1] = "Completed" =>
        /\ Len(hist[1].sheets) = Len(hist[1].plan.actions)
        /\ Len(hist[1].sheets) = calc.total_sheets

(***************************************************************************)
(* Output paths of plan entries with different names.                      *)
(***************************************************************************)
\* the (subject name, clip name) pair of entry number a (from 0) of a plan
EntryNames(plan, a) ==
    <<ObjName(plan.actions[a + 1].armature_obj), ActionName(plan.actions[a + 1].action)>>

\* C38: in one batch, the frame files recorded for plan entries whose
\* (subject name, clip name) pairs differ are different files, and so are
\* the sheet files written for them.
C38_DistinctNamesDistinctPaths ==
    \A i \in Ops :
        /\ \A e1, e2 \in SeqSet(op[i].frame_paths) :
              EntryNames(op[i].plan, e1.k[1]) # EntryNames(op[i].plan, e2.k[1])
                => SeqSet(e1.v) \cap SeqSet(e2.v) = {}
        /\ \A s1, s2 \in SeqSet(hist[i].sheets) :
              EntryNames(hist[i].plan, s1.action_index)
                  # EntryNames(hist[i].plan, s2.action_index)
                => s1.path # s2.path

(***************************************************************************)
(* The order of the entries across runs of the synchronizer.               *)
(***************************************************************************)
\* the objects the subject-entries of a plan point at, and the actions the
\* clip-entries of a subject-entry point at, in the order of the entries
SubjectOrder(plan) == [k \in DOMAIN plan |-> plan[k].armature]
ClipOrder(arm_item) == [j \in DOMAIN arm_item.actions |-> arm_item.actions[j].action]

\* the keys of old that are still in new, in the order of old (None is the key
\* of an entry whose object or action was deleted: such an entry is still
\* there after a run that returned at once, without a source collection)
Surviving(old, new) == SelectSeq(old, LAMBDA x : x \in SeqSet(new))

\* new starts with the surviving keys of old in their old order, and every
\* key behind them is one old does not have
OrderKept(old, new) ==
    /\ Len(Surviving(old, new)) <= Len(new)
    /\ SubSeq(new, 1, Len(Surviving(old, new))) = Surviving(old, new)
    /\ \A k \in (Len(Surviving(old, new)) + 1)..Len(new) : new[k] \notin SeqSet(old)

----------------------------------------------------------------------------
\* sgg.toggle_armature_actions called with any index

MaxToggles == 2

\* the values of armature_index tried: the property's default -1, the rows of
\* the list and two indices past its end
ToggleIndices == (0 - 1)..(Cardinality(Armatures) + 1)

\* what SGG_OT_toggle_armature_actions.execute returns
toggle_armature_actions_ret(plan, armature_index) ==
    IF armature_index < 0 \/ armature_index >= Len(plan) THEN "CANCELLED"
    ELSE "FINISHED"

\* a planning list of any shape, the empty one included, and no batch
ToggleInit ==
    /\ plan_armatures \in BuildStates \cup {<<>>}
    /\ settings = DefaultSettings
    /\ scene = [frame_current |-> 0, filepath |-> <<"/tmp/", <<>>>>]
    /\ anim = [a \in Armatures |->
                 IF a = "Arm1" THEN [has_ad |-> TRUE, action |-> "Run"]
                 ELSE [has_ad |-> FALSE, action |-> None]]
    /\ wm_timers = {}
    /\ disk = [dirs |-> {}, files |-> {}]
    /\ op = [i \in Ops |-> NewOperator]
    /\ phase = [i \in Ops |-> "Unborn"]
    /\ hist = [i \in Ops |-> NewHistory]
    /\ bpy_data = NoData
    /\ calc = [call |-> "none", n |-> 0, cancelled |-> 0]

\* SGG_OT_toggle_armature_actions.execute
ToggleArmatureActionsCalled(armature_index, enable) ==
    /\ calc.n < MaxToggles
    /\ plan_armatures' = toggle_armature_actions(plan_armatures, armature_index, enable)
    /\ calc' = [call |-> "toggle_armature_actions",
                n |-> calc.n + 1,
                cancelled |-> calc.cancelled +
                    (IF toggle_armature_actions_ret(plan_armatures, armature_index)
                          = "CANCELLED" THEN 1 ELSE 0),
                armature_index |-> armature_index,
                enable |-> enable,
                before |-> plan_armatures,
                ret |-> toggle_armature_actions_ret(plan_armatures, armature_index)]
    /\ UNCHANGED <<settings, scene, anim, wm_timers, disk, op, phase, hist, bpy_data>>

ToggleNext ==
    \E armature_index \in ToggleIndices, enable \in BOOLEAN :
        ToggleArmatureActionsCalled(armature_index, enable)

SpecToggle == ToggleInit /\ [][ToggleNext]_vars

\* the clip-entry act_item with nothing but its checkbox set to enable
OnlyFlagSet(act_item, before, enable) ==
    /\ act_item.enabled = enable
    /\ act_item.action = before.action
    /\ act_item.name = before.name
    /\ act_item.frame_start = before.frame_start
    /\ act_item.frame_end = before.frame_end
    /\ act_item.reverse_playback = before.reverse_playback

\* C40: sgg.toggle_armature_actions with an index inside the planning list
\* sets the checkbox of every clip-entry of the subject-entry at that index to
\* the requested value and leaves that subject's own checkbox, its armature,
\* every other subject-entry and all frame ranges as they were; with an index
\* outside the list it changes nothing and returns CANCELLED
C40_ToggleArmatureActions ==
    calc.call = "toggle_armature_actions" =>
        IF calc.armature_index \in 0..(Len(calc.before) - 1)
        THEN /\ calc.ret = "FINISHED"
             /\ Len(plan_armatures) = Len(calc.before)
             /\ \A k \in DOMAIN plan_armatures :
                   IF k = calc.armature_index + 1
                   THEN /\ plan_armatures[k].enabled = calc.before[k].enabled
                        /\ plan_armatures[k].armature = calc.before[k].armature
                        /\ plan_armatures[k].name = calc.before[k].name
                        /\ plan_armatures[k].ui_expanded = calc.before[k].ui_expanded
                        /\ Len(plan_armatures[k].actions) = Len(calc.before[k].actions)
                        /\ \A j \in DOMAIN plan_armatures[k].actions :
                              OnlyFlagSet(plan_armatures[k].actions[j],
                                          calc.before[k].actions[j], calc.enable)
                   ELSE plan_armatures[k] = calc.before[k]
        ELSE /\ calc.ret = "CANCELLED"
             /\ plan_armatures = calc.before

\* a call on a row that is switched off itself has switched its clip-entries
\* on, one of them with a reversed range, after a call with an index outside
\* the list was cancelled
C40_Witness ==
    /\ calc.call = "toggle_armature_actions"
    /\ calc.cancelled = 1
    /\ calc.ret = "FINISHED"
    /\ calc.armature_index = 0
    /\ calc.enable
    /\ ~plan_armatures[1].enabled
    /\ \A j \in DOMAIN calc.before[1].actions : ~calc.before[1].actions[j].enabled
    /\ \A j \in DOMAIN plan_armatures[1].actions : plan_armatures[1].actions[j].enabled
    /\ plan_armatures[1].actions[1].frame_start > plan_armatures[1].actions[1].frame_end

====
